---- MODULE Spec2Model ----
(***************************************************************************)
(* Model of the RadarScan worker: the SessionManager Durable Object (the   *)
(* session coordinator), the HTTP layer's handleCreateScan and the         *)
(* ScanWorkflow, with the retry helper and the error classifier.           *)
(*                                                                         *)
(* One SessionManager instance (one session id) is modelled.  A handler    *)
(* of the object runs without interruption except where it awaits the D1   *)
(* mirror (persistToD1, the alarm's UPDATE): awaiting ctx.storage keeps    *)
(* other events out, awaiting D1 does not, so each handler that writes     *)
(* the mirror is two steps, and other events may be delivered in between.  *)
(***************************************************************************)
EXTENDS Integers, Sequences, FiniteSets, TLC

\* ------------------------------------------------------------------ bounds
MaxConns == 2
MaxUpdates == 2
MaxTicks == 1
MaxRetryAttempts == 3
MaxRestarts == 1

\* ------------------------------------------------------- program constants
ExpiryMs == 86400000
NormalClosure == 1000

SessionId == "s1"
Url == "https://example.com"
Email == "user@example.com"

Conns == 1..MaxConns
Clients == {"g1", "g2"}
Callers == {"api", "wf"} \cup Clients
Slots == Callers \cup {"alarm"}

VARIABLES
  sessionData,   \* SessionManager.sessionData (Null when null)
  storage,       \* ctx.storage key 'sessionData' (Null when absent)
  alarmAt,       \* the armed alarm's time, NoAlarm when none
  sessions,      \* SessionManager.sessions: the Map's keys in insertion order
  d1row,         \* the D1 sessions row of this id (Null when absent)
  pending,       \* per caller: the handler suspended on its D1 await
  reply,         \* per caller: the response to its last request
  conn,          \* per connection: state and close code of the server socket
  inbox,         \* per connection: the messages sent to it, in order
  now,           \* Date.now()
  ticks,         \* clock steps taken (bounded)
  created,       \* init has been issued for this id
  nUpd,          \* updates merged so far (numbers the updates)
  applied,       \* history: the partials merged since init, in merge order
  initRec,       \* history: the record init created
  bstatus,       \* history: the status last announced (init's, then broadcasts')
  regView,       \* history: per connection, getState's answer when it registered
  apiPc,         \* handleCreateScan's position
  wfPc,          \* ScanWorkflow.run's position
  wfNext,        \* where run continues when the awaited /update returns
  wfAttempt,     \* the loop counter of the step in progress
  wfErr,         \* the error caught at the workflow boundary (NoError when none)
  wfState,       \* sessionState, the result of step 'fetch session data'
  wfScan,        \* radarScan.uuid ("" before the submission)
  r2,            \* the R2 bucket: the keys that hold an object
  wfThrown,      \* the error run ends with (NoError while none was thrown)
  wfDone,        \* the names of the steps whose step.do has returned
  wfSleeps,      \* the step.sleep durations (s) of the poll step in progress
  wfRestarts,    \* restarts of the workflow's process so far (bounded)
  retry,         \* one call of retryWithBackoff: options, loop state, outcome
  ui             \* the Scanner component: its session copy, socket and timers

coordVars == <<sessionData, storage, alarmAt, sessions, d1row, pending>>
wireVars == <<conn, inbox, reply>>
clockVars == <<now, ticks>>
ghostVars == <<applied, initRec, bstatus>>
histVars == <<created, nUpd, ghostVars, regView>>
wfVars ==
  <<apiPc, wfPc, wfNext, wfAttempt, wfErr, wfState, wfScan, r2, wfThrown, wfDone,
    wfSleeps, wfRestarts>>
libVars == <<retry, ui>>
appVars == <<wfVars, libVars>>

\* ----------------------------------------------------------------- values
Null == [f \in {} |-> 0]
Exists(s) == DOMAIN s # {}
NoAlarm == -1
NoCall == [kind |-> "none", uid |-> 0, upd |-> Null, row |-> Null]
NoReply == [op |-> "none", code |-> "none"]
Response(op, code) == [op |-> op, code |-> code]
Range(q) == {q[i] : i \in 1..Len(q)}
Remove(q, dead) == SelectSeq(q, LAMBDA k : k \notin dead)
NoPending == \A c \in Slots : pending[c].kind = "none"

\* The object spread {...s, ...u}: the fields of u win.
Merge(s, u) ==
  [f \in (DOMAIN s \cup DOMAIN u) |-> IF f \in DOMAIN u THEN u[f] ELSE s[f]]

\* A wrong merge: updatedAt is stamped before the partial is spread.
MergeUpdateStampFirst(s, u, t) == Merge(Merge(s, [updatedAt |-> t]), u)

\* handleUpdate's { ...this.sessionData, ...update, updatedAt: Date.now() }
MergeUpdate(s, u, t) == Merge(Merge(s, u), [updatedAt |-> t])

\* handleInit's record: the caller's createdAt, updatedAt, expiresAt are ignored.
NewSession(data, t) ==
  [sessionId |-> data.sessionId, url |-> data.url, email |-> data.email,
   status |-> "queued", createdAt |-> t, updatedAt |-> t,
   expiresAt |-> t + ExpiryMs,
   ipAddress |-> data.ipAddress, userAgent |-> data.userAgent,
   country |-> data.country]

\* A column bound by persistToD1: `x || null`.
Col(s, f) == IF f \in DOMAIN s THEN s[f] ELSE "NULL"

\* The row persistToD1 binds (evaluated before the await).
Row(s) ==
  [id |-> Col(s, "sessionId"), url |-> Col(s, "url"), email |-> Col(s, "email"),
   status |-> Col(s, "status"), job_id |-> Col(s, "jobId"),
   radar_uuid |-> Col(s, "radarUuid"), r2_key |-> Col(s, "r2Key"),
   error |-> Col(s, "error"), created_at |-> Col(s, "createdAt"),
   updated_at |-> Col(s, "updatedAt"), expires_at |-> Col(s, "expiresAt"),
   ip_address |-> Col(s, "ipAddress"), user_agent |-> Col(s, "userAgent"),
   country |-> Col(s, "country")]

\* The alarm's UPDATE sessions SET status = 'expired' WHERE id = ?
MarkExpired(row) == IF Exists(row) THEN [row EXCEPT !.status = "expired"] ELSE row

\* `if (!this.sessionData) this.sessionData = await storage.get(...) || null`
LoadSession == IF Exists(sessionData) THEN sessionData ELSE storage

\* handleUpdate's `if (!this.sessionData) return 404` accepting a missing session.
SessionMissingNever(s) == FALSE

SessionMissing(s) == ~Exists(s)

\* What handleGetState answers: the record (200), or Null for the 404.
GetStateBody == LoadSession

\* handleWebSocket's { type: 'state', data: this.sessionData, timestamp }
Snapshot(loaded) == [type |-> "state", data |-> loaded, timestamp |-> now, uid |-> 0]

\* handleUpdate's { type: 'update', data: update, timestamp }
UpdateMessage(u, uid) == [type |-> "update", data |-> u, timestamp |-> now, uid |-> uid]

IsOpen(k) == conn[k].state = "open"

\* A broadcast whose loop ends at the first failed send (nothing pruned).
broadcastStopAtFailure(message) ==
  LET bad == {i \in 1..Len(sessions) : ~IsOpen(sessions[i])}
      first == IF bad = {} THEN Len(sessions) + 1
               ELSE CHOOSE i \in bad : \A j \in bad : i <= j
      sent == {sessions[i] : i \in 1..(first - 1)}
  IN [inbox |-> [k \in Conns |-> IF k \in sent THEN Append(inbox[k], message)
                                 ELSE inbox[k]],
      sessions |-> sessions]

\* broadcast: send to every key of the Map; a send that throws marks the socket
\* dead, and the dead are deleted after the loop.
broadcast(message) ==
  LET dead == {k \in Range(sessions) : ~IsOpen(k)}
  IN [inbox |-> [k \in Conns |-> IF k \in Range(sessions) /\ IsOpen(k)
                                 THEN Append(inbox[k], message) ELSE inbox[k]],
      sessions |-> Remove(sessions, dead)]

\* An expiry that spares finished jobs.
ExpiryDueUnlessFinished(s, t) ==
  t >= s.expiresAt /\ s.status \notin {"completed", "failed"}

\* alarm's `if (now >= this.sessionData.expiresAt)`
ExpiryDue(s, t) == t >= s.expiresAt

\* alarm's loop: ws.close(1000, 'Session expired') on every key; a close that
\* throws (the socket is closed already) is caught.
CloseAll ==
  [k \in Conns |-> IF k \in Range(sessions) /\ IsOpen(k)
                   THEN [state |-> "closed", code |-> NormalClosure] ELSE conn[k]]

\* ------------------------------------------------- SessionManager handlers

\* handleInit up to its await of persistToD1.
handleInit(c, data) ==
  LET s == NewSession(data, now) IN
  /\ sessionData' = s
  /\ storage' = s
  /\ pending' = [pending EXCEPT ![c] = [kind |-> "init", uid |-> 0, upd |-> Null,
                                        row |-> Row(s)]]
  /\ reply' = [reply EXCEPT ![c] = NoReply]
  /\ UNCHANGED <<alarmAt, sessions, d1row, conn, inbox, nUpd, regView>>

\* handleInit after the D1 write (d1ok: the write succeeded): setAlarm(this.sessionData.expiresAt).
handleInitResume(c, d1ok) ==
  /\ pending[c].kind = "init"
  /\ d1row' = IF d1ok THEN pending[c].row ELSE d1row
  /\ pending' = [pending EXCEPT ![c] = NoCall]
  /\ IF Exists(sessionData)
     THEN /\ alarmAt' = sessionData.expiresAt
          /\ reply' = [reply EXCEPT ![c] = Response("init", "ok")]
     ELSE /\ alarmAt' = alarmAt
          /\ reply' = [reply EXCEPT ![c] = Response("init", "threw")]
  /\ UNCHANGED <<sessionData, storage, sessions, conn, inbox, nUpd, regView>>

\* A handleUpdate that merges in memory and leaves the stored record alone.
handleUpdateMemoryOnly(c, u) ==
  LET loaded == LoadSession IN
  /\ IF SessionMissing(loaded)
     THEN /\ sessionData' = loaded
          /\ reply' = [reply EXCEPT ![c] = Response("update", "notfound")]
          /\ UNCHANGED <<storage, pending, nUpd>>
     ELSE LET merged == MergeUpdate(loaded, u, now) IN
          /\ sessionData' = merged
          /\ storage' = storage
          /\ nUpd' = nUpd + 1
          /\ pending' = [pending EXCEPT ![c] = [kind |-> "update", uid |-> nUpd + 1,
                                                upd |-> u, row |-> Row(merged)]]
          /\ reply' = [reply EXCEPT ![c] = NoReply]
  /\ UNCHANGED <<alarmAt, sessions, d1row, conn, inbox, regView>>

\* handleUpdate up to its await of persistToD1.
handleUpdate(c, u) ==
  LET loaded == LoadSession IN
  /\ IF SessionMissing(loaded)
     THEN /\ sessionData' = loaded
          /\ reply' = [reply EXCEPT ![c] = Response("update", "notfound")]
          /\ UNCHANGED <<storage, pending, nUpd>>
     ELSE LET merged == MergeUpdate(loaded, u, now) IN
          /\ sessionData' = merged
          /\ storage' = merged
          /\ nUpd' = nUpd + 1
          /\ pending' = [pending EXCEPT ![c] = [kind |-> "update", uid |-> nUpd + 1,
                                                upd |-> u, row |-> Row(merged)]]
          /\ reply' = [reply EXCEPT ![c] = NoReply]
  /\ UNCHANGED <<alarmAt, sessions, d1row, conn, inbox, regView>>

\* handleUpdate after the D1 write: broadcast, then the log line that reads
\* this.sessionData.sessionId (a TypeError when sessionData is null by then).
handleUpdateResume(c, d1ok) ==
  /\ pending[c].kind = "update"
  /\ d1row' = IF d1ok THEN pending[c].row ELSE d1row
  /\ LET b == broadcast(UpdateMessage(pending[c].upd, pending[c].uid)) IN
     /\ inbox' = b.inbox
     /\ sessions' = b.sessions
  /\ pending' = [pending EXCEPT ![c] = NoCall]
  /\ reply' = [reply EXCEPT ![c] =
                 IF Exists(sessionData) THEN Response("update", "ok")
                 ELSE Response("update", "threw")]
  /\ UNCHANGED <<sessionData, storage, alarmAt, conn, nUpd,
                 regView>>

\* handleGetState: load if absent from memory, answer GetStateBody.
handleGetState(c) ==
  /\ sessionData' = LoadSession
  /\ UNCHANGED <<storage, alarmAt, sessions, d1row, pending, reply, conn, inbox,
                 nUpd, regView>>

\* A registration that sends what memory holds and never loads.
webSocketLoadSkipped == sessionData

\* handleWebSocket's own `if (!this.sessionData) ... storage.get`.
webSocketLoad == LoadSession

\* handleWebSocket: register the server socket, accept, load, send the snapshot.
handleWebSocket(k) ==
  LET loaded == webSocketLoad IN
  /\ conn[k].state = "new"
  /\ sessions' = Append(sessions, k)
  /\ conn' = [conn EXCEPT ![k] = [state |-> "open", code |-> 0]]
  /\ sessionData' = loaded
  /\ inbox' = [inbox EXCEPT ![k] = IF Exists(loaded) THEN <<Snapshot(loaded)>>
                                   ELSE <<>>]
  /\ regView' = [regView EXCEPT ![k] = GetStateBody]
  /\ UNCHANGED <<storage, alarmAt, d1row, pending, reply, nUpd>>

\* The 'close' and 'error' listeners: this.sessions.delete(server).
onSocketClosed(k) ==
  /\ k \in Range(sessions)
  /\ ~IsOpen(k)
  /\ sessions' = Remove(sessions, {k})
  /\ UNCHANGED <<sessionData, storage, alarmAt, d1row, pending, conn, inbox, reply,
                 nUpd, regView>>

\* alarm() up to its await of the D1 UPDATE, run at time t.
alarm(t) ==
  LET loaded == LoadSession IN
  /\ pending["alarm"].kind = "none"
  /\ alarmAt' = NoAlarm
  /\ sessionData' = loaded
  /\ IF Exists(loaded) /\ ExpiryDue(loaded, t)
     THEN /\ conn' = CloseAll
          /\ sessions' = <<>>
          /\ pending' = [pending EXCEPT !["alarm"] =
                           [kind |-> "alarm", uid |-> 0, upd |-> Null, row |-> Null]]
     ELSE UNCHANGED <<conn, sessions, pending>>
  /\ UNCHANGED <<storage, d1row, inbox, reply, nUpd, regView>>

\* alarm() after the D1 UPDATE: storage.deleteAll(), sessionData = null.
alarmResume(d1ok) ==
  /\ pending["alarm"].kind = "alarm"
  /\ d1row' = IF d1ok THEN MarkExpired(d1row) ELSE d1row
  /\ storage' = Null
  /\ sessionData' = Null
  /\ pending' = [pending EXCEPT !["alarm"] = NoCall]
  /\ UNCHANGED <<alarmAt, sessions, conn, inbox, reply, nUpd, regView>>

\* The object is discarded and constructed anew: sessions = new Map(),
\* sessionData = null.  Its sockets go with it.
constructor ==
  /\ NoPending
  /\ Exists(sessionData) \/ sessions # <<>>
  /\ sessionData' = Null
  /\ sessions' = <<>>
  /\ conn' = [k \in Conns |-> IF k \in Range(sessions) /\ IsOpen(k)
                             THEN [state |-> "closed", code |-> 1006] ELSE conn[k]]
  /\ UNCHANGED <<storage, alarmAt, d1row, pending, inbox, reply, nUpd, regView>>

\* ------------------------------------------------------------ environment
InitData ==
  [sessionId |-> SessionId, url |-> Url, email |-> Email, createdAt |-> now,
   updatedAt |-> now, expiresAt |-> now + ExpiryMs, ipAddress |-> "203.0.113.7",
   userAgent |-> "agent", country |-> "PT"]

\* Partial<SessionState> bodies a caller of /update may post.
UpdSet ==
  {[status |-> "scanning", radarUuid |-> "uuid-1"],
   [progressPercent |-> 5, updatedAt |-> 0],
   [status |-> "completed", r2Key |-> "sessions/s1/report.pdf"],
   [status |-> "failed", error |-> "e"]}

\* A D1 statement succeeds (TRUE), or throws and is caught and logged (FALSE).
D1Outcomes == BOOLEAN

Max(a, b) == IF a >= b THEN a ELSE b

\* The clock advances.
Tick ==
  /\ ticks < MaxTicks
  /\ now' = now + 1
  /\ ticks' = ticks + 1
  /\ UNCHANGED <<coordVars, wireVars, histVars, appVars>>

\* The armed alarm comes due and the runtime delivers it.
AlarmFire ==
  /\ alarmAt # NoAlarm
  /\ now' = Max(now, alarmAt)
  /\ alarm(now')
  /\ UNCHANGED <<ticks, created, ghostVars, appVars>>

AlarmResume(d1ok) ==
  /\ alarmResume(d1ok)
  /\ applied' = <<>>
  /\ initRec' = Null
  /\ UNCHANGED <<clockVars, created, bstatus, appVars>>

\* The runtime evicts the idle object; the next event constructs it again.
Evict ==
  /\ constructor
  /\ UNCHANGED <<clockVars, created, ghostVars, appVars>>

\* A client opens the WebSocket /ws/<id>: sockets are numbered as they open.
Connect(k) ==
  /\ \A j \in 1..(k - 1) : conn[j].state # "new"
  /\ handleWebSocket(k)
  /\ UNCHANGED <<clockVars, created, ghostVars, appVars>>

\* A client closes its socket (or the connection drops).
ClientClose(k) ==
  /\ IsOpen(k)
  /\ conn' = [conn EXCEPT ![k] = [state |-> "closed", code |-> 1005]]
  /\ UNCHANGED <<coordVars, inbox, reply, clockVars, histVars, appVars>>

\* The object's close listener runs.
CloseEvent(k) ==
  /\ onSocketClosed(k)
  /\ UNCHANGED <<clockVars, created, ghostVars, appVars>>

\* Requests of a caller of the object's internal API.  A request takes the
\* first caller that has none outstanding.
Free(g) == pending[g].kind = "none" /\ (g = "g2" => pending["g1"].kind # "none")

EnvInit(g) ==
  /\ ~created
  /\ Free(g)
  /\ created' = TRUE
  /\ handleInit(g, InitData)
  /\ initRec' = sessionData'
  /\ applied' = <<>>
  /\ bstatus' = "queued"
  /\ UNCHANGED <<clockVars, appVars>>

EnvUpdate(g, u) ==
  /\ Free(g)
  /\ nUpd < MaxUpdates
  /\ handleUpdate(g, u)
  /\ applied' = IF nUpd' # nUpd THEN Append(applied, [uid |-> nUpd', upd |-> u])
                ELSE applied
  /\ UNCHANGED <<clockVars, created, initRec, bstatus, appVars>>

EnvGetState(g) ==
  /\ Free(g)
  /\ handleGetState(g)
  /\ UNCHANGED <<clockVars, created, ghostVars, appVars>>

InitResume(c, d1ok) ==
  /\ handleInitResume(c, d1ok)
  /\ UNCHANGED <<clockVars, created, ghostVars, appVars>>

UpdateResume(c, d1ok) ==
  /\ handleUpdateResume(c, d1ok)
  /\ bstatus' = IF "status" \in DOMAIN pending[c].upd THEN pending[c].upd.status
                ELSE bstatus
  /\ UNCHANGED <<clockVars, created, applied, initRec, appVars>>


\* --------------------------------------------------------- error messages
\* An Error: its message as lower-cased fragments, and its status property
\* (NoStatus when it has none).
NoStatus == 0
NoError == [message |-> <<>>, status |-> NoStatus]
Error(message, status) == [message |-> message, status |-> status]
includes(message, w) == w \in Range(message)

Friendly(title, message, action) ==
  [title |-> title, message |-> message, action |-> action]

\* getUserFriendlyError
getUserFriendlyError(e) ==
  LET m == e.message IN
  IF includes(m, "radar api") THEN
    IF includes(m, "401") \/ includes(m, "unauthorized") THEN
      Friendly("Authentication Error",
               "Unable to connect to the scanning service. Please try again later.",
               "If this persists, contact support.")
    ELSE IF includes(m, "429") \/ includes(m, "rate limit") THEN
      Friendly("Too Many Requests",
               "We're receiving a high volume of scan requests right now.",
               "Please wait a few minutes and try again.")
    ELSE IF includes(m, "400") \/ includes(m, "bad request") THEN
      Friendly("Invalid URL", "The URL you provided couldn't be scanned.",
               "Please check the URL and try again.")
    ELSE IF includes(m, "timeout") THEN
      Friendly("Scan Timeout", "The scan took longer than expected to complete.",
               "Please try scanning this URL again.")
    ELSE
      Friendly("Scanning Service Error",
               "We encountered an issue while scanning your URL.",
               "Please try again in a few moments.")
  ELSE IF includes(m, "network") \/ includes(m, "fetch") THEN
    Friendly("Connection Error", "Unable to connect to our servers.",
             "Please check your internet connection and try again.")
  ELSE IF includes(m, "timeout") THEN
    Friendly("Request Timeout", "The request took too long to complete.",
             "Please try again.")
  ELSE IF includes(m, "r2") \/ includes(m, "storage") THEN
    Friendly("Storage Error", "We couldn't save your scan report.",
             "Please try scanning again.")
  ELSE IF includes(m, "database") \/ includes(m, "d1") THEN
    Friendly("Database Error", "We encountered an issue saving your scan data.",
             "Your scan may still complete. Please check back in a moment.")
  ELSE IF includes(m, "pdf") THEN
    Friendly("Report Generation Error", "We couldn't generate your PDF report.",
             "Please try scanning again.")
  ELSE IF includes(m, "workflow") THEN
    Friendly("Processing Error", "We encountered an issue processing your scan.",
             "Please try again.")
  ELSE IF includes(m, "email") \/ includes(m, "resend") THEN
    Friendly("Email Delivery Failed", "We couldn't send the report to your email.",
             "You can still download the report from this page.")
  ELSE
    Friendly("Something Went Wrong", "We encountered an unexpected error.",
             "Please try again. If the problem persists, contact support.")

\* run's displayMessage: `${title}: ${message}${action ? ' ' + action : ''}`
displayMessage(e) ==
  LET f == getUserFriendlyError(e) IN
  f.title \o ": " \o f.message \o (IF f.action # "" THEN " " \o f.action ELSE "")

\* ------------------------------------------------------------------ retry
\* isRetryableError
isRetryableError(e) ==
  IF \/ includes(e.message, "network") \/ includes(e.message, "timeout")
     \/ includes(e.message, "econnreset") \/ includes(e.message, "enotfound")
  THEN TRUE
  ELSE IF e.status # NoStatus THEN e.status >= 500 \/ e.status = 429
  ELSE FALSE

\* One failed attempt of retryWithBackoff's loop: "throw" (not retryable, or
\* the last attempt) or "sleep" (and go round again).
retryAfterFailure(e, attempt, maxAttempts) ==
  IF ~isRetryableError(e) THEN "throw"
  ELSE IF attempt = maxAttempts THEN "throw"
  ELSE "sleep"

\* Defaults whose predicate is isRetryableError.
DEFAULT_OPTIONS_Selective ==
  [maxAttempts |-> 3, initialDelayMs |-> 1000, maxDelayMs |-> 10000,
   backoffMultiplier |-> 2, retryableErrors |-> "isRetryableError"]

\* DEFAULT_OPTIONS ("all": the default predicate `() => true`).
DEFAULT_OPTIONS ==
  [maxAttempts |-> 3, initialDelayMs |-> 1000, maxDelayMs |-> 10000,
   backoffMultiplier |-> 2, retryableErrors |-> "all"]

\* opts.retryableErrors(error): the default, isRetryableError, or a predicate
\* that refuses every error.
retryableErrors(opts, e) ==
  IF opts.retryableErrors = "isRetryableError" THEN isRetryableError(e)
  ELSE opts.retryableErrors = "all"

RECURSIVE Pow(_, _)
Pow(b, e) == IF e <= 0 THEN 1 ELSE b * Pow(b, e - 1)

Min(a, b) == IF a <= b THEN a ELSE b

\* A delay whose exponent is the attempt number itself.
backoffDelayFromAttempt(opts, attempt) ==
  Min(opts.initialDelayMs * Pow(opts.backoffMultiplier, attempt), opts.maxDelayMs)

\* Math.min(initialDelayMs * Math.pow(backoffMultiplier, attempt - 1), maxDelayMs)
backoffDelay(opts, attempt) ==
  Min(opts.initialDelayMs * Pow(opts.backoffMultiplier, attempt - 1), opts.maxDelayMs)

\* A catch branch that never asks the predicate.
retryDecisionIgnoresPredicate(opts, e, attempt) ==
  IF attempt = opts.maxAttempts THEN "throw" ELSE "sleep"

\* retryWithBackoff's catch branch: throw the error (not retryable), leave the
\* loop and throw lastError (last attempt), or sleep.
retryDecision(opts, e, attempt) ==
  IF ~retryableErrors(opts, e) THEN "throw"
  ELSE IF attempt = opts.maxAttempts THEN "throw"
  ELSE "sleep"

\* No call of retryWithBackoff is being observed.
RetryIdle ==
  [pc |-> "idle", options |-> Null, opts |-> Null, attempt |-> 0, calls |-> 0,
   sleeps |-> <<>>, errors |-> <<>>, delay |-> 0, result |-> NoError]

\* The Scanner component before a scan: no session, no socket, no timers;
\* `server` is the status the session has at the coordinator.
UiIdle ==
  [status |-> "null", seen |-> "null", ws |-> "none", reconnectAttempts |-> 0,
   reconnectTimeout |-> 0, pollingInterval |-> 0, server |-> "null"]

vars == <<coordVars, wireVars, clockVars, histVars, appVars>>

InitProgram ==
  /\ sessionData = Null
  /\ storage = Null
  /\ alarmAt = NoAlarm
  /\ sessions = <<>>
  /\ d1row = Null
  /\ pending = [c \in Slots |-> NoCall]
  /\ reply = [c \in Callers |-> NoReply]
  /\ conn = [k \in Conns |-> [state |-> "new", code |-> 0]]
  /\ inbox = [k \in Conns |-> <<>>]
  /\ now = 0
  /\ ticks = 0
  /\ created = FALSE
  /\ nUpd = 0
  /\ applied = <<>>
  /\ initRec = Null
  /\ bstatus = "none"
  /\ regView = [k \in Conns |-> Null]
  /\ apiPc = "start"
  /\ wfPc = "idle"
  /\ wfNext = "idle"
  /\ wfAttempt = 0
  /\ wfErr = NoError
  /\ wfState = Null
  /\ wfScan = ""
  /\ r2 = {}
  /\ wfThrown = NoError
  /\ wfDone = {}
  /\ wfSleeps = <<>>
  /\ wfRestarts = 0
  /\ ui = UiIdle

Init ==
  /\ InitProgram
  /\ retry = RetryIdle


\* ------------------------------------------------------- handleCreateScan
\* The same update, posting the initial status again.
WorkflowStartedRequeues ==
  [workflowInstanceId |-> SessionId, status |-> "queued", progressPercent |-> 0,
   progressMessage |-> "Initializing scan..."]

\* The update posted once the workflow instance exists.
WorkflowStarted ==
  [workflowInstanceId |-> SessionId, progressPercent |-> 0,
   progressMessage |-> "Initializing scan..."]

\* A catch update that records the error and leaves the status.
WorkflowNotStartedErrorOnly == [error |-> "Failed to start scan workflow"]

\* The update posted from the catch around the workflow's creation.
WorkflowNotStarted ==
  [status |-> "failed", error |-> "Failed to start scan workflow"]

\* sessionDO.fetch('https://do/init', ...)
ApiInit ==
  /\ apiPc = "start"
  /\ apiPc' = "init"
  /\ created' = TRUE
  /\ handleInit("api", InitData)
  /\ bstatus' = "queued"
  /\ UNCHANGED <<clockVars, applied, initRec, wfPc, wfNext, wfAttempt, wfErr, wfState,
                 wfScan, r2, wfThrown, wfDone,
                 wfSleeps, wfRestarts, libVars>>

\* `if (!initResponse.ok) throw`
ApiInitReturn ==
  /\ apiPc = "init"
  /\ pending["api"].kind = "none"
  /\ apiPc' = IF reply["api"].code = "ok" THEN "create" ELSE "error"
  /\ UNCHANGED <<coordVars, wireVars, clockVars, histVars, wfPc, wfNext, wfAttempt,
                 wfErr, wfState, wfScan, r2, wfThrown, wfDone,
                 wfSleeps, wfRestarts, libVars>>

\* env.SCAN_WORKFLOW.create(...) returns the instance: the workflow runs.
ApiCreate ==
  /\ apiPc = "create"
  /\ apiPc' = "created"
  /\ wfPc' = "fetch"
  /\ UNCHANGED <<coordVars, wireVars, clockVars, histVars, wfNext, wfAttempt, wfErr,
                 wfState, wfScan, r2, wfThrown, wfDone,
                 wfSleeps, wfRestarts, libVars>>

\* env.SCAN_WORKFLOW.create(...) throws: no instance.
ApiCreateThrows ==
  /\ apiPc = "create"
  /\ apiPc' = "catch"
  /\ UNCHANGED <<coordVars, wireVars, clockVars, histVars, wfPc, wfNext, wfAttempt,
                 wfErr, wfState, wfScan, r2, wfThrown, wfDone,
                 wfSleeps, wfRestarts, libVars>>

\* The update with the workflow instance id.
ApiUpdate ==
  /\ apiPc = "created"
  /\ apiPc' = "update"
  /\ handleUpdate("api", WorkflowStarted)
  /\ UNCHANGED <<clockVars, created, ghostVars, wfPc, wfNext, wfAttempt, wfErr,
                 wfState, wfScan, r2, wfThrown, wfDone,
                 wfSleeps, wfRestarts, libVars>>

ApiUpdateReturn ==
  /\ apiPc = "update"
  /\ pending["api"].kind = "none"
  /\ apiPc' = IF reply["api"].code = "threw" THEN "catch" ELSE "done"
  /\ UNCHANGED <<coordVars, wireVars, clockVars, histVars, wfPc, wfNext, wfAttempt,
                 wfErr, wfState, wfScan, r2, wfThrown, wfDone,
                 wfSleeps, wfRestarts, libVars>>

\* catch: mark the session failed, then rethrow (the request answers 500).
ApiMarkFailed ==
  /\ apiPc = "catch"
  /\ apiPc' = "failing"
  /\ handleUpdate("api", WorkflowNotStarted)
  /\ UNCHANGED <<clockVars, created, ghostVars, wfPc, wfNext, wfAttempt, wfErr,
                 wfState, wfScan, r2, wfThrown, wfDone,
                 wfSleeps, wfRestarts, libVars>>

ApiMarkFailedReturn ==
  /\ apiPc = "failing"
  /\ pending["api"].kind = "none"
  /\ apiPc' = "error"
  /\ UNCHANGED <<coordVars, wireVars, clockVars, histVars, wfPc, wfNext, wfAttempt,
                 wfErr, wfState, wfScan, r2, wfThrown, wfDone,
                 wfSleeps, wfRestarts, libVars>>

\* ------------------------------------------------------------ ScanWorkflow
SubmitMaxAttempts == 3
UploadMaxAttempts == 3
PollMaxAttempts == 40

\* `Radar API error (${response.status}): ${errorText}` with error.status set.
RadarError(status, body) ==
  Error(<<"radar api", "error", ToString(status)>> \o body, status)

\* The poll step's error: the same message, no status property.
RadarPollError(status, body) ==
  Error(<<"radar api", "error", ToString(status)>> \o body, NoStatus)

NetworkError == Error(<<"network", "connection", "lost">>, NoStatus)
NullSessionError == Error(<<"cannot", "read", "properties", "of", "null">>, NoStatus)

\* What the scan submission may answer (NoError: 200 with a uuid).
SubmitOutcomes ==
  {NoError, RadarError(500, <<"internal", "error">>),
   RadarError(500, <<"upstream", "timeout">>),
   RadarError(400, <<"invalid", "url">>),
   RadarError(400, <<"gateway", "timeout">>),
   RadarError(429, <<"slow", "down">>), NetworkError}

\* What a result request may answer: 200, 404, or another status.
PollOutcomes == {200, 404, 500}

\* What the PDF generator may do.
PdfOutcomes == {NoError, Error(<<"pdf", "render", "failed">>, NoStatus)}

\* What the bucket's put may do.
PutOutcomes ==
  {NoError, NetworkError, Error(<<"r2", "put", "rejected">>, NoStatus),
   Error(<<"r2", "access", "denied">>, 403)}

\* A key laid out differently from the one the download handler reads.
r2KeyFlat(id) == "reports/" \o id \o ".pdf"

r2KeyOf(id) == "sessions/" \o id \o "/report.pdf"

\* handleDownload's `sessions/${sessionId}/report.pdf`
downloadKey(id) == "sessions/" \o id \o "/report.pdf"

\* handleDownload: 404 'Report not found' unless the bucket holds the key.
handleDownload(id) == IF downloadKey(id) \in r2 THEN 200 ELSE 404

\* Math.min(15 + Math.floor((attempt / maxAttempts) * 50), 65)
pollProgress(attempt) ==
  LET p == 15 + ((attempt * 50) \div PollMaxAttempts) IN IF p < 65 THEN p ELSE 65

\* The bodies run posts to /update.
StartingUpdate ==
  [progressPercent |-> 5, progressMessage |-> "Submitting URL to Cloudflare Radar..."]

ScanningUpdate(uuid) ==
  [status |-> "scanning", radarUuid |-> uuid, progressPercent |-> 15,
   progressMessage |-> "Scan submitted. Waiting for results..."]

PollingUpdate(attempt) ==
  [progressPercent |-> pollProgress(attempt),
   progressMessage |-> "Analyzing URL... (" \o ToString(attempt + 1) \o "/"
                       \o ToString(PollMaxAttempts) \o ")"]

\* An update to generating that carries no status.
GeneratingUpdateNoStatus ==
  [progressPercent |-> 70,
   progressMessage |-> "Scan complete! Generating PDF report..."]

GeneratingUpdate ==
  [status |-> "generating", progressPercent |-> 70,
   progressMessage |-> "Scan complete! Generating PDF report..."]

\* An update to uploading that already names the key.
UploadingUpdateWithKey ==
  [status |-> "uploading", r2Key |-> r2KeyOf(SessionId), progressPercent |-> 85,
   progressMessage |-> "Uploading report to cloud storage..."]

UploadingUpdate ==
  [status |-> "uploading", progressPercent |-> 85,
   progressMessage |-> "Uploading report to cloud storage..."]

CompletedUpdate(key) ==
  [status |-> "completed", r2Key |-> key, progressPercent |-> 100,
   progressMessage |-> "Scan complete! Your report is ready."]

FailedUpdate(e) == [status |-> "failed", error |-> displayMessage(e)]

\* A step that forgets the submission: it would run again on a restart.
stepDoneUnlessSubmit(done, name) ==
  IF name = "submit to radar api" THEN done ELSE done \cup {name}

\* step.do(name, ...) has returned: the engine holds the step's result.
stepDone(done, name) == done \cup {name}

\* The step.do that awaits the /update whose continuation is `next` (none
\* for the updates inside the poll step's loop).
AwaitingStep(next) ==
  IF next = "submit" THEN {"update progress: starting"}
  ELSE IF next = "poll" THEN {"update session with radar uuid"}
  ELSE IF next = "pdf" THEN {"update status to generating"}
  ELSE IF next = "upload" THEN {"update status to uploading"}
  ELSE IF next = "done" THEN {"mark completed"}
  ELSE IF next = "errored" THEN {"mark failed"}
  ELSE {}

wfEnv == <<clockVars, created, ghostVars, apiPc, wfRestarts, libVars>>
wfUnchanged == <<wfEnv, wfThrown, wfSleeps>>

\* await sessionDO.fetch('https://do/update', body u), continuing at `next`.
WfPost(u, next) ==
  /\ pending["wf"].kind = "none"
  /\ handleUpdate("wf", u)
  /\ wfPc' = "await"
  /\ wfNext' = next
  /\ UNCHANGED <<wfUnchanged, wfDone>>

\* What leaves run's catch block: `throw error` after step 'mark failed', or
\* that step's own rejection, which ends the block before the throw.
rethrown(rejected) == IF rejected THEN NullSessionError ELSE wfErr

\* The awaited fetch settles: a thrown handler rejects it, any response
\* (200 or 404) resolves it and is not inspected.
WfPostReturn ==
  /\ wfPc = "await"
  /\ pending["wf"].kind = "none"
  /\ IF reply["wf"].code = "threw"
     THEN /\ wfPc' = IF wfNext = "errored" THEN "errored" ELSE "catch"
          /\ wfErr' = IF wfNext = "errored" THEN wfErr ELSE NullSessionError
     ELSE /\ wfPc' = wfNext
          /\ wfErr' = wfErr
  /\ wfThrown' = IF wfNext = "errored" THEN rethrown(reply["wf"].code = "threw")
                 ELSE wfThrown
  /\ wfDone' = IF reply["wf"].code # "threw" /\ AwaitingStep(wfNext) # {}
               THEN stepDone(wfDone, CHOOSE n \in AwaitingStep(wfNext) : TRUE)
               ELSE wfDone
  /\ UNCHANGED <<coordVars, wireVars, histVars, wfEnv, wfSleeps, wfNext, wfAttempt,
                 wfState, wfScan, r2>>

\* Step 'fetch session data'.
WfFetch ==
  /\ wfPc = "fetch"
  /\ handleGetState("wf")
  /\ IF Exists(GetStateBody)
     THEN /\ wfState' = GetStateBody
          /\ wfPc' = "progress"
          /\ wfErr' = wfErr
          /\ wfDone' = stepDone(wfDone, "fetch session data")
     ELSE /\ wfState' = wfState
          /\ wfPc' = "catch"
          /\ wfErr' = Error(<<"failed", "to", "fetch", "session", "state">>, NoStatus)
          /\ wfDone' = wfDone
  /\ UNCHANGED <<wfUnchanged, wfNext, wfAttempt, wfScan, r2>>

\* Step 'update progress: starting'.
WfProgress ==
  /\ wfPc = "progress"
  /\ WfPost(StartingUpdate, "submit")
  /\ wfAttempt' = 1
  /\ UNCHANGED <<wfErr, wfState, wfScan, r2>>

\* Step 'submit to radar api': one attempt of retryWithBackoff's loop.
WfSubmit(o) ==
  /\ wfPc = "submit"
  /\ IF o = NoError
     THEN /\ wfScan' = "uuid-1"
          /\ wfPc' = "uuid"
          /\ wfDone' = stepDone(wfDone, "submit to radar api")
          /\ UNCHANGED <<wfAttempt, wfErr>>
     ELSE IF retryAfterFailure(o, wfAttempt, SubmitMaxAttempts) = "sleep"
     THEN /\ wfAttempt' = wfAttempt + 1
          /\ UNCHANGED <<wfPc, wfErr, wfScan, wfDone>>
     ELSE /\ wfPc' = "catch"
          /\ wfErr' = o
          /\ UNCHANGED <<wfAttempt, wfScan, wfDone>>
  /\ UNCHANGED <<coordVars, wireVars, histVars, wfUnchanged, wfNext, wfState, r2>>

\* A scanning update that leaves the uuid out.
WfScanningNoUuid ==
  /\ wfPc = "uuid"
  /\ WfPost([status |-> "scanning", progressPercent |-> 15,
             progressMessage |-> "Scan submitted. Waiting for results..."], "poll")
  /\ wfAttempt' = 0
  /\ UNCHANGED <<wfErr, wfState, wfScan, r2>>

\* Step 'update session with radar uuid'.
WfScanning ==
  /\ wfPc = "uuid"
  /\ WfPost(ScanningUpdate(wfScan), "poll")
  /\ wfAttempt' = 0
  /\ UNCHANGED <<wfErr, wfState, wfScan, r2>>

\* Step 'poll for scan results': the loop's progress update.
WfPollUpdate ==
  /\ wfPc = "poll"
  /\ wfAttempt < PollMaxAttempts
  /\ WfPost(PollingUpdate(wfAttempt), "pollfetch")
  /\ UNCHANGED <<wfAttempt, wfErr, wfState, wfScan, r2>>

\* new Error('Scan timeout after 10 minutes')
ScanTimeoutError == Error(<<"scan", "timeout", "after", "10", "minutes">>, NoStatus)

\* A loop that ends by handing on no result instead of throwing.
WfPollTimeoutSilent ==
  /\ wfPc = "poll"
  /\ wfAttempt >= PollMaxAttempts
  /\ wfPc' = "generating"
  /\ wfErr' = wfErr
  /\ UNCHANGED <<coordVars, wireVars, histVars, wfUnchanged, wfNext, wfAttempt,
                 wfState, wfScan, r2, wfDone>>

\* The loop ends: throw new Error('Scan timeout after 10 minutes').
WfPollTimeout ==
  /\ wfPc = "poll"
  /\ wfAttempt >= PollMaxAttempts
  /\ wfPc' = "catch"
  /\ wfErr' = ScanTimeoutError
  /\ UNCHANGED <<coordVars, wireVars, histVars, wfUnchanged, wfNext, wfAttempt,
                 wfState, wfScan, r2, wfDone>>

\* `if (attempt < maxAttempts - 1)`: a sleep follows the not-ready answer.
sleepsAfter(attempt) == attempt < PollMaxAttempts - 1

\* The seconds of step.sleep('wait for scan', ...) after attempt (0-based).
pollSleep(attempt) == IF attempt < 5 THEN 5 ELSE IF attempt < 15 THEN 10 ELSE 15

\* A loop that takes every answer other than 200 as "not ready".
WfPollFetchLenient(status) ==
  /\ wfPc = "pollfetch"
  /\ IF status = 200
     THEN /\ wfPc' = "generating"
          /\ wfDone' = stepDone(wfDone, "poll for scan results")
          /\ wfSleeps' = <<>>
          /\ UNCHANGED <<wfAttempt, wfErr>>
     ELSE /\ wfPc' = "poll"
          /\ wfAttempt' = wfAttempt + 1
          /\ wfSleeps' = IF sleepsAfter(wfAttempt)
                         THEN Append(wfSleeps, pollSleep(wfAttempt)) ELSE wfSleeps
          /\ UNCHANGED <<wfErr, wfDone>>
  /\ UNCHANGED <<coordVars, wireVars, histVars, wfEnv, wfThrown, wfNext, wfState,
                 wfScan, r2>>

\* The loop's result request and what follows its status: the result is
\* returned (200), the loop sleeps and goes round (404), or it throws.
WfPollFetch(status) ==
  /\ wfPc = "pollfetch"
  /\ IF status = 200
     THEN /\ wfPc' = "generating"
          /\ wfDone' = stepDone(wfDone, "poll for scan results")
          /\ wfSleeps' = <<>>
          /\ UNCHANGED <<wfAttempt, wfErr>>
     ELSE IF status = 404
     THEN /\ wfPc' = "poll"
          /\ wfAttempt' = wfAttempt + 1
          /\ wfSleeps' = IF sleepsAfter(wfAttempt)
                         THEN Append(wfSleeps, pollSleep(wfAttempt)) ELSE wfSleeps
          /\ UNCHANGED <<wfErr, wfDone>>
     ELSE /\ wfPc' = "catch"
          /\ wfErr' = RadarPollError(status, <<"upstream", "failure">>)
          /\ UNCHANGED <<wfAttempt, wfDone, wfSleeps>>
  /\ UNCHANGED <<coordVars, wireVars, histVars, wfEnv, wfThrown, wfNext, wfState,
                 wfScan, r2>>

\* Step 'update status to generating'.
WfGenerating ==
  /\ wfPc = "generating"
  /\ WfPost(GeneratingUpdate, "pdf")
  /\ UNCHANGED <<wfAttempt, wfErr, wfState, wfScan, r2>>

\* Step 'generate pdf'.
WfPdf(o) ==
  /\ wfPc = "pdf"
  /\ wfPc' = IF o = NoError THEN "uploading" ELSE "catch"
  /\ wfErr' = IF o = NoError THEN wfErr ELSE o
  /\ wfDone' = IF o = NoError THEN stepDone(wfDone, "generate pdf") ELSE wfDone
  /\ UNCHANGED <<coordVars, wireVars, histVars, wfUnchanged, wfNext, wfAttempt,
                 wfState, wfScan, r2>>

\* Step 'update status to uploading'.
WfUploading ==
  /\ wfPc = "uploading"
  /\ WfPost(UploadingUpdate, "upload")
  /\ wfAttempt' = 1
  /\ UNCHANGED <<wfErr, wfState, wfScan, r2>>

\* A retry loop that does not return on success: it puts again until the
\* attempts are used up.
WfUploadNoReturn(o) ==
  /\ wfPc = "upload"
  /\ IF o = NoError
     THEN /\ r2' = r2 \cup {r2KeyOf(SessionId)}
          /\ IF wfAttempt < UploadMaxAttempts
             THEN /\ wfAttempt' = wfAttempt + 1
                  /\ UNCHANGED <<wfPc, wfErr, wfDone>>
             ELSE /\ wfPc' = "completed"
                  /\ wfDone' = stepDone(wfDone, "upload to r2")
                  /\ UNCHANGED <<wfAttempt, wfErr>>
     ELSE IF retryAfterFailure(o, wfAttempt, UploadMaxAttempts) = "sleep"
     THEN /\ wfAttempt' = wfAttempt + 1
          /\ UNCHANGED <<wfPc, wfErr, r2, wfDone>>
     ELSE /\ wfPc' = "catch"
          /\ wfErr' = o
          /\ UNCHANGED <<wfAttempt, r2, wfDone>>
  /\ UNCHANGED <<coordVars, wireVars, histVars, wfUnchanged, wfNext, wfState, wfScan>>

\* Step 'upload to r2': one attempt of retryWithBackoff's loop.
WfUpload(o) ==
  /\ wfPc = "upload"
  /\ IF o = NoError
     THEN /\ r2' = r2 \cup {r2KeyOf(SessionId)}
          /\ wfPc' = "completed"
          /\ wfDone' = stepDone(wfDone, "upload to r2")
          /\ UNCHANGED <<wfAttempt, wfErr>>
     ELSE IF retryAfterFailure(o, wfAttempt, UploadMaxAttempts) = "sleep"
     THEN /\ wfAttempt' = wfAttempt + 1
          /\ UNCHANGED <<wfPc, wfErr, r2, wfDone>>
     ELSE /\ wfPc' = "catch"
          /\ wfErr' = o
          /\ UNCHANGED <<wfAttempt, r2, wfDone>>
  /\ UNCHANGED <<coordVars, wireVars, histVars, wfUnchanged, wfNext, wfState, wfScan>>

\* Step 'mark completed'.
WfCompleted ==
  /\ wfPc = "completed"
  /\ WfPost(CompletedUpdate(r2KeyOf(SessionId)), "done")
  /\ UNCHANGED <<wfAttempt, wfErr, wfState, wfScan, r2>>

\* catch: step 'mark failed', then the error is thrown again.
WfMarkFailed ==
  /\ wfPc = "catch"
  /\ WfPost(FailedUpdate(wfErr), "errored")
  /\ UNCHANGED <<wfAttempt, wfErr, wfState, wfScan, r2>>

\* ---------------------------------------------------------------- restart
\* run's steps in program order: the step.do name and where its body starts.
StepEntry ==
  <<[name |-> "fetch session data", pc |-> "fetch"],
    [name |-> "update progress: starting", pc |-> "progress"],
    [name |-> "submit to radar api", pc |-> "submit"],
    [name |-> "update session with radar uuid", pc |-> "uuid"],
    [name |-> "poll for scan results", pc |-> "poll"],
    [name |-> "update status to generating", pc |-> "generating"],
    [name |-> "generate pdf", pc |-> "pdf"],
    [name |-> "update status to uploading", pc |-> "uploading"],
    [name |-> "upload to r2", pc |-> "upload"],
    [name |-> "mark completed", pc |-> "completed"]>>

\* The step ledger on a restart: run is invoked again, every step.do whose
\* result is held returns it without running, and the first step that has
\* none runs from the top of its body.
Resume(done) ==
  LET open == {i \in 1..Len(StepEntry) : StepEntry[i].name \notin done}
  IN IF open = {} THEN "done"
     ELSE StepEntry[CHOOSE i \in open : \A j \in open : i <= j].pc

\* The process restarts while run is suspended in a poll-interval sleep.
\* The locals of the re-entered body start afresh (`let attempt = 0`; attempt
\* = 1 in retryWithBackoff); the results of the completed steps are held.
WfRestart ==
  /\ wfRestarts < MaxRestarts
  /\ wfRestarts' = wfRestarts + 1
  /\ wfPc = "poll"
  /\ wfAttempt \in 1..(PollMaxAttempts - 1)
  /\ wfPc' = Resume(wfDone)
  /\ wfAttempt' = IF wfPc' \in {"submit", "upload"} THEN 1 ELSE 0
  /\ wfSleeps' = <<>>
  /\ wfState' = IF "fetch session data" \in wfDone THEN wfState ELSE Null
  /\ wfScan' = IF "submit to radar api" \in wfDone THEN wfScan ELSE ""
  /\ UNCHANGED <<coordVars, wireVars, histVars, clockVars, apiPc, libVars, wfThrown,
                 wfNext, wfErr, r2, wfDone>>

\* The workflow of a created session on a reachable mirror, with restarts of
\* the workflow's process during the poll-interval sleeps.
NextRestart ==
  \/ ApiInit
  \/ ApiInitReturn
  \/ ApiCreate
  \/ InitResume("api", TRUE)
  \/ UpdateResume("wf", TRUE)
  \/ WfFetch
  \/ WfProgress
  \/ \E o \in SubmitOutcomes : WfSubmit(o)
  \/ WfScanning
  \/ WfPollUpdate
  \/ WfPollTimeout
  \/ \E o \in PollOutcomes : WfPollFetch(o)
  \/ WfGenerating
  \/ \E o \in PdfOutcomes : WfPdf(o)
  \/ WfUploading
  \/ \E o \in PutOutcomes : WfUpload(o)
  \/ WfCompleted
  \/ WfMarkFailed
  \/ WfPostReturn
  \/ WfRestart

SpecRestart == Init /\ [][NextRestart]_vars

\* The process restarts while run is suspended around the upload: in a
\* backoff sleep between two puts, or after step 'upload to r2' has returned
\* and before 'mark completed' runs.
WfRerun ==
  /\ wfRestarts < MaxRestarts
  /\ wfRestarts' = wfRestarts + 1
  /\ \/ wfPc = "upload" /\ wfAttempt > 1
     \/ wfPc = "completed"
  /\ wfPc' = Resume(wfDone)
  /\ wfAttempt' = IF wfPc' \in {"submit", "upload"} THEN 1 ELSE 0
  /\ wfSleeps' = <<>>
  /\ UNCHANGED <<coordVars, wireVars, histVars, clockVars, apiPc, libVars, wfThrown,
                 wfNext, wfErr, wfState, wfScan, r2, wfDone>>

\* The workflow of a created session on a reachable mirror, with restarts of
\* the workflow's process around the upload.
NextRerun ==
  \/ ApiInit
  \/ ApiInitReturn
  \/ ApiCreate
  \/ InitResume("api", TRUE)
  \/ UpdateResume("wf", TRUE)
  \/ WfFetch
  \/ WfProgress
  \/ \E o \in SubmitOutcomes : WfSubmit(o)
  \/ WfScanning
  \/ WfPollUpdate
  \/ WfPollTimeout
  \/ \E o \in PollOutcomes : WfPollFetch(o)
  \/ WfGenerating
  \/ \E o \in PdfOutcomes : WfPdf(o)
  \/ WfUploading
  \/ \E o \in PutOutcomes : WfUpload(o)
  \/ WfCompleted
  \/ WfMarkFailed
  \/ WfPostReturn
  \/ WfRerun

SpecRerun == Init /\ [][NextRerun]_vars

\* ------------------------------------------------------- repeated init
OtherUrl == "https://other.example"

\* Bodies a caller may post to /init for the same id: the first one again, or
\* one with another url or email.
InitChoices == {"same", "url", "email"}

InitBody(w) ==
  IF w = "url" THEN [InitData EXCEPT !.url = OtherUrl]
  ELSE IF w = "email" THEN [InitData EXCEPT !.email = "other@example.com"]
  ELSE InitData

\* Partials that name fields set at creation.
UpdSetAny == UpdSet \cup {[url |-> OtherUrl], [expiresAt |-> 0]}

\* /init is posted again for an id that was initialised (before its expiry).
EnvReinit(g, w) ==
  /\ created
  /\ Free(g)
  /\ now < ExpiryMs
  /\ handleInit(g, InitBody(w))
  /\ initRec' = sessionData'
  /\ applied' = <<>>
  /\ bstatus' = "queued"
  /\ UNCHANGED <<clockVars, created, appVars>>

\* The coordinator under callers that repeat init and post any partial.
NextInit ==
  \/ \E g \in Clients : EnvInit(g)
  \/ \E g \in Clients, w \in InitChoices : EnvReinit(g, w)
  \/ \E g \in Clients : InitResume(g, TRUE)
  \/ \E g \in Clients, u \in UpdSetAny : EnvUpdate(g, u)
  \/ \E g \in Clients : UpdateResume(g, TRUE)
  \/ Tick
  \/ AlarmFire
  \/ AlarmResume(TRUE)

SpecInit == Init /\ [][NextInit]_vars

\* ------------------------------------------------------- retryWithBackoff
\* What one invocation of fn may do (NoError: it resolves).
RetryOutcomes ==
  {NoError, NetworkError, RadarError(500, <<"internal", "error">>),
   RadarError(400, <<"invalid", "url">>)}

\* The options a caller passes (Null: none, the defaults apply).
RetryOptionSets ==
  {Null}
    \cup {[maxAttempts |-> n, initialDelayMs |-> d, maxDelayMs |-> c,
           retryableErrors |-> p] :
            n \in 1..MaxRetryAttempts, d \in {100, 2000}, c \in {150, 10000},
            p \in {"all", "isRetryableError", "none"}}

\* `const opts = { ...DEFAULT_OPTIONS, ...options }`, attempt = 1.
InitRetry ==
  /\ InitProgram
  /\ \E options \in RetryOptionSets :
       retry = [pc |-> "run", options |-> options,
                opts |-> Merge(DEFAULT_OPTIONS, options), attempt |-> 1,
                calls |-> 0, sleeps |-> <<>>, errors |-> <<>>, delay |-> 0,
                result |-> NoError]

\* One pass of the loop body: `return await fn()`, or the catch branch.
RetryCall(o) ==
  /\ retry.pc = "run"
  /\ retry' =
       IF o = NoError
       THEN [retry EXCEPT !.pc = "returned", !.calls = @ + 1]
       ELSE IF retryDecision(retry.opts, o, retry.attempt) = "throw"
       THEN [retry EXCEPT !.pc = "threw", !.calls = @ + 1,
                          !.errors = Append(@, o), !.result = o]
       ELSE [retry EXCEPT !.pc = "sleeping", !.calls = @ + 1,
                          !.errors = Append(@, o), !.result = o,
                          !.delay = backoffDelay(retry.opts, retry.attempt)]
  /\ UNCHANGED <<coordVars, wireVars, clockVars, histVars, wfVars, ui>>

\* `await sleep(delay)`, then attempt++.
RetrySleep ==
  /\ retry.pc = "sleeping"
  /\ retry' = [retry EXCEPT !.pc = "run", !.sleeps = Append(@, retry.delay),
                            !.attempt = @ + 1]
  /\ UNCHANGED <<coordVars, wireVars, clockVars, histVars, wfVars, ui>>

NextRetry ==
  \/ \E o \in RetryOutcomes : RetryCall(o)
  \/ RetrySleep

SpecRetry == InitRetry /\ [][NextRetry]_vars

\* handleCreateScan and the workflow it starts, the object's alarm, eviction;
\* the mirror is reachable.
Next ==
  \/ ApiInit
  \/ ApiInitReturn
  \/ ApiCreate
  \/ ApiCreateThrows
  \/ ApiUpdate
  \/ ApiUpdateReturn
  \/ ApiMarkFailed
  \/ ApiMarkFailedReturn
  \/ InitResume("api", TRUE)
  \/ \E c \in {"api", "wf"} : UpdateResume(c, TRUE)
  \/ WfFetch
  \/ WfProgress
  \/ \E o \in SubmitOutcomes : WfSubmit(o)
  \/ WfScanning
  \/ WfPollUpdate
  \/ WfPollTimeout
  \/ \E o \in PollOutcomes : WfPollFetch(o)
  \/ WfGenerating
  \/ \E o \in PdfOutcomes : WfPdf(o)
  \/ WfUploading
  \/ \E o \in PutOutcomes : WfUpload(o)
  \/ WfCompleted
  \/ WfMarkFailed
  \/ WfPostReturn
  \/ AlarmFire
  \/ AlarmResume(TRUE)
  \/ Evict

Spec == Init /\ [][Next]_vars

\* The coordinator under arbitrary callers of its operations.
NextCoord ==
  \/ \E g \in Clients : EnvInit(g)
  \/ \E g \in Clients, u \in UpdSet : EnvUpdate(g, u)
  \/ \E g \in Clients : EnvGetState(g)
  \/ \E g \in Clients : InitResume(g, TRUE)
  \/ \E g \in Clients : UpdateResume(g, TRUE)
  \/ \E k \in Conns : Connect(k)
  \/ \E k \in Conns : ClientClose(k)
  \/ \E k \in Conns : CloseEvent(k)
  \/ AlarmFire
  \/ AlarmResume(TRUE)
  \/ Evict

SpecCoord == Init /\ [][NextCoord]_vars

\* The coordinator's store under arbitrary callers: a moving clock, a mirror
\* that may fail, eviction, and no sockets.
NextStore ==
  \/ \E g \in Clients : EnvInit(g)
  \/ \E g \in Clients, u \in UpdSet : EnvUpdate(g, u)
  \/ \E g \in Clients : EnvGetState(g)
  \/ \E g \in Clients, d1ok \in D1Outcomes : InitResume(g, d1ok)
  \/ \E g \in Clients, d1ok \in D1Outcomes : UpdateResume(g, d1ok)
  \/ AlarmFire
  \/ \E d1ok \in D1Outcomes : AlarmResume(d1ok)
  \/ Evict
  \/ Tick

SpecStore == Init /\ [][NextStore]_vars

\* The coordinator with live connections and a mirror that may fail.
NextMirror ==
  \/ \E g \in Clients : EnvInit(g)
  \/ \E g \in Clients, u \in UpdSet : EnvUpdate(g, u)
  \/ \E g \in Clients, d1ok \in D1Outcomes : InitResume(g, d1ok)
  \/ \E g \in Clients, d1ok \in D1Outcomes : UpdateResume(g, d1ok)
  \/ \E k \in Conns : Connect(k)
  \/ AlarmFire
  \/ \E d1ok \in D1Outcomes : AlarmResume(d1ok)

SpecMirror == Init /\ [][NextMirror]_vars

\* ------------------------------------------------------ Scanner component
ReconnectMaxAttempts == 5
ReconnectCapMs == 16000
PollIntervalMs == 5000

\* Math.min(1000 * Math.pow(2, reconnectAttemptsRef.current), 16000)
reconnectDelay(attempts) == Min(1000 * Pow(2, attempts), ReconnectCapMs)

\* attemptReconnect: fall back to polling after maxAttempts, else schedule
\* connectWebSocket after the backoff delay.
attemptReconnect(u) ==
  IF u.reconnectAttempts >= ReconnectMaxAttempts
  THEN [u EXCEPT !.pollingInterval = PollIntervalMs]
  ELSE [u EXCEPT !.reconnectTimeout = reconnectDelay(u.reconnectAttempts),
                 !.reconnectAttempts = @ + 1]

\* The `sessionData` that ws.onclose reads: the binding of the render whose
\* connectWebSocket created the socket, not the component's current state.
closureSessionData(u) == u.seen

uiUnchanged == <<coordVars, wireVars, clockVars, histVars, wfVars, retry>>

\* handleSubmit: the form is shown while sessionData is null; the session
\* is set to queued and connectWebSocket is called from that render.
UiSubmit ==
  /\ ui = UiIdle
  /\ ui' = [ui EXCEPT !.status = "queued", !.seen = ui.status, !.ws = "connecting",
                      !.server = "queued"]
  /\ UNCHANGED uiUnchanged

\* Mount with a session restored from sessionStorage whose status st is
\* active: the effect calls connectWebSocket from the first render.
UiMount(st) ==
  /\ ui = UiIdle
  /\ ui' = [ui EXCEPT !.status = st, !.seen = st, !.ws = "connecting", !.server = st]
  /\ UNCHANGED uiUnchanged

\* ws.onopen: the counter is reset and a running poll is stopped.
UiOpen ==
  /\ ui.ws = "connecting"
  /\ ui' = [ui EXCEPT !.ws = "open", !.reconnectAttempts = 0, !.pollingInterval = 0]
  /\ UNCHANGED uiUnchanged

\* ws.onmessage with a state or update message: merged over the copy.
UiMessage ==
  /\ ui.ws = "open"
  /\ ui.status # ui.server
  /\ ui' = [ui EXCEPT !.status = ui.server]
  /\ UNCHANGED uiUnchanged

\* ws.onclose, of an open socket or of one that failed to connect.
UiClose ==
  /\ ui.ws # "none"
  /\ LET closed == [ui EXCEPT !.ws = "none"]
         seen == closureSessionData(ui)
     IN ui' = IF seen # "null" /\ seen # "completed" /\ seen # "failed"
              THEN attemptReconnect(closed) ELSE closed
  /\ UNCHANGED uiUnchanged

\* The reconnect timeout fires: connectWebSocket from the same closure.
UiTimer ==
  /\ ui.reconnectTimeout # 0
  /\ ui' = [ui EXCEPT !.reconnectTimeout = 0, !.ws = "connecting"]
  /\ UNCHANGED uiUnchanged

\* One tick of startPolling's interval; ok: the response was 2xx.
UiPoll(ok) ==
  /\ ui.pollingInterval # 0
  /\ ui' = IF ~ok THEN ui
           ELSE [ui EXCEPT !.status = ui.server,
                           !.pollingInterval =
                             IF ui.server \in {"completed", "failed"} THEN 0 ELSE @]
  /\ UNCHANGED uiUnchanged

\* The session moves on at the coordinator.
SrvAdvance(st) ==
  /\ ui.server # "null"
  /\ <<ui.server, st>> \in
       {<<"queued", "scanning">>, <<"scanning", "generating">>,
        <<"generating", "uploading">>, <<"uploading", "completed">>}
         \cup {<<a, "failed">> : a \in {"queued", "scanning", "generating", "uploading"}}
  /\ ui' = [ui EXCEPT !.server = st]
  /\ UNCHANGED uiUnchanged

UiStatuses == {"queued", "scanning", "generating", "uploading", "completed", "failed"}

\* The web client of one session.
NextClient ==
  \/ UiSubmit
  \/ \E st \in UiStatuses \ {"completed", "failed"} : UiMount(st)
  \/ UiOpen
  \/ UiMessage
  \/ UiClose
  \/ UiTimer
  \/ \E ok \in BOOLEAN : UiPoll(ok)
  \/ \E st \in UiStatuses : SrvAdvance(st)

SpecClient == Init /\ [][NextClient]_vars

\* ----------------------------------------------------------------- claims
NonTerminal == {"queued", "scanning", "generating", "uploading"}
Terminal == {"completed", "failed"}

\* The edges of the session state machine.
StatusEdges ==
  {<<"queued", "scanning">>, <<"scanning", "generating">>,
   <<"generating", "uploading">>, <<"uploading", "completed">>}
    \cup {<<st, "failed">> : st \in NonTerminal}
    \cup {<<st, "expired">> : st \in NonTerminal \cup Terminal}

\* The status a getState shows: the record's, "expired" once the record is
\* gone, "none" before init.
Observed ==
  IF Exists(GetStateBody) THEN GetStateBody.status
  ELSE IF created THEN "expired" ELSE "none"

Step(a, b) == a = b \/ (a = "none" /\ b = "queued") \/ <<a, b>> \in StatusEdges

\* C1: every change of the status, as getState shows it and as the broadcasts
\* announce it, follows an edge queued -> scanning -> generating -> uploading
\* -> completed, non-terminal -> failed, or any -> expired.
C1_StatusEdges == [][Step(Observed, Observed') /\ Step(bstatus, bstatus')]_vars

\* The workflow has walked the whole chain and the last broadcast said so.
C1_Witness ==
  /\ Observed = "completed"
  /\ bstatus = "completed"
  /\ wfPc = "done"
  /\ apiPc = "done"

\* C2: once the status is completed or failed, no later update of the API
\* layer or of the workflow makes it non-terminal again.
C2_TerminalStays ==
  [][(Observed \in Terminal) => (Observed' \notin NonTerminal)]_vars

\* The API layer's update is the latest one merged, after the workflow's
\* failure was recorded.
C2_Witness ==
  /\ Observed = "failed"
  /\ pending["api"].kind = "update"
  /\ pending["api"].uid = nUpd
  /\ wfPc = "errored"
  /\ "workflowInstanceId" \in DOMAIN GetStateBody

\* A step that begins an operation of the coordinator.
BeginsOperation ==
  \/ \E g \in Clients : EnvInit(g)
  \/ \E g \in Clients, u \in UpdSet : EnvUpdate(g, u)
  \/ \E k \in Conns : Connect(k)
  \/ AlarmFire

\* C3: the operations on one session id run one at a time: none begins while
\* another is suspended on its write to the durable store or to the mirror.
C3_OneAtATime == [][BeginsOperation => NoPending]_vars

\* The last partial of the history that carries field f, 0 when none does.
LastWriter(f) ==
  LET idx == {i \in 1..Len(applied) : f \in DOMAIN applied[i].upd}
  IN IF idx = {} THEN 0 ELSE CHOOSE i \in idx : \A j \in idx : j <= i

ExpectedFields == DOMAIN initRec \cup UNION {DOMAIN applied[i].upd : i \in 1..Len(applied)}

ExpectedField(f) ==
  IF LastWriter(f) = 0 THEN initRec[f] ELSE applied[LastWriter(f)].upd[f]

MatchesHistory ==
  /\ DOMAIN GetStateBody = ExpectedFields
  /\ \A f \in ExpectedFields \ {"updatedAt"} : GetStateBody[f] = ExpectedField(f)

\* C4: getState answers the field-wise merge of the init record with the
\* applied partials in order, and updatedAt never decreases, also when a
\* partial carries an updatedAt of its own.
C4_MergeOfPartials ==
  [][/\ Exists(GetStateBody') => MatchesHistory'
     /\ (Exists(GetStateBody) /\ Exists(GetStateBody'))
          => GetStateBody'.updatedAt >= GetStateBody.updatedAt]_vars

\* Two partials merged, one with its own updatedAt, the clock advanced, and
\* the answer comes from the durable store.
C4_Witness ==
  /\ Len(applied) = 2
  /\ \E i \in 1..2 : "updatedAt" \in DOMAIN applied[i].upd
  /\ \E i \in 1..2 : "status" \in DOMAIN applied[i].upd
  /\ now > 0
  /\ ~Exists(sessionData)
  /\ Exists(storage)
  /\ GetStateBody.updatedAt > 0

\* The timer fires at or after expiresAt on an existing session.
ExpiryFires == AlarmFire /\ Exists(LoadSession) /\ now' >= LoadSession.expiresAt

\* C5: when the expiry timer fires on an existing session, whatever its
\* status, every registered connection is closed with the normal code, the
\* registry is emptied, and from the handler's completion on getState
\* answers NotFound.
C5_Expiry ==
  [][/\ ExpiryFires =>
          /\ \A k \in Range(sessions) :
               /\ conn'[k].state = "closed"
               /\ IsOpen(k) => conn'[k].code = NormalClosure
          /\ sessions' = <<>>
          /\ pending'["alarm"].kind = "alarm"
     /\ (\E d1ok \in D1Outcomes : AlarmResume(d1ok)) => ~Exists(GetStateBody')
     /\ (created /\ ~Exists(GetStateBody)) => ~Exists(GetStateBody')]_vars

\* A completed session has expired: its connection was closed with 1000 and
\* getState answers NotFound.
C5_Witness ==
  /\ created
  /\ ~Exists(GetStateBody)
  /\ NoPending
  /\ sessions = <<>>
  /\ \E k \in Conns : conn[k] = [state |-> "closed", code |-> NormalClosure]
  /\ Exists(d1row)
  /\ d1row.status = "expired"
  /\ d1row.r2_key # "NULL"

\* C6: when a session exists, a newly registered connection's first message
\* is the state message equal to getState's answer at that moment, and every
\* later message is an update.
C6_SnapshotFirst ==
  \A k \in Conns :
    (conn[k].state # "new" /\ Exists(regView[k])) =>
      /\ Len(inbox[k]) >= 1
      /\ inbox[k][1].type = "state"
      /\ inbox[k][1].data = regView[k]
      /\ \A i \in 2..Len(inbox[k]) : inbox[k][i].type = "update"

\* A connection registered on a cold object after an update, and then
\* received the next update.
C6_Witness ==
  \E k \in Conns :
    /\ Len(inbox[k]) = 2
    /\ inbox[k][1].type = "state"
    /\ "radarUuid" \in DOMAIN inbox[k][1].data
    /\ inbox[k][2].type = "update"
    /\ \E j \in Conns : conn[j].code = 1006

\* C7: when an update returns ok, every registered and open connection is
\* sent the update message with exactly that partial.
C7_BroadcastToAll ==
  [][\A c \in Callers :
       (handleUpdateResume(c, TRUE) /\ reply'[c].code = "ok") =>
         \A k \in Range(sessions) :
           IsOpen(k) =>
             /\ inbox'[k] = Append(inbox[k], UpdateMessage(pending[c].upd, pending[c].uid))
             /\ inbox'[k][Len(inbox'[k])].data = pending[c].upd]_vars

\* An update returned ok and reached the open connection registered after a
\* dead one.
C7_Witness ==
  /\ \E g \in Clients : reply[g] = Response("update", "ok")
  /\ conn[1].state = "closed"
  /\ IsOpen(2)
  /\ Len(inbox[2]) >= 2
  /\ inbox[2][Len(inbox[2])].type = "update"
  /\ inbox[2][Len(inbox[2])].uid > (IF Len(inbox[1]) = 0 THEN 0
                                     ELSE inbox[1][Len(inbox[1])].uid)

\* C8: on every connection the update messages arrive in the order in which
\* the updates were merged.
C8_BroadcastOrder ==
  \A k \in Conns :
    \A i, j \in 1..Len(inbox[k]) :
      (i < j /\ inbox[k][i].type = "update" /\ inbox[k][j].type = "update")
        => inbox[k][i].uid < inbox[k][j].uid

\* C9: when a send fails during a broadcast, the failing connection is
\* removed from the registry, the others are still sent the message, the
\* update returns ok, and a removed connection is sent nothing more.
C9_SendFailure ==
  [][/\ \A c \in Callers :
          (handleUpdateResume(c, TRUE) /\ \E k \in Range(sessions) : ~IsOpen(k)) =>
            /\ \A k \in Range(sessions) :
                 IF IsOpen(k)
                 THEN /\ k \in Range(sessions')
                      /\ inbox'[k] = Append(inbox[k],
                                            UpdateMessage(pending[c].upd, pending[c].uid))
                 ELSE /\ k \notin Range(sessions')
                      /\ inbox'[k] = inbox[k]
            /\ reply'[c].code = "ok"
     /\ \A k \in Conns :
          (conn[k].state # "new" /\ k \notin Range(sessions)) => inbox'[k] = inbox[k]]_vars

\* C10: an update when no session exists answers NotFound and changes
\* nothing: no record in memory or in the durable store, no mirror write, no
\* broadcast.
C10_UpdateMissing ==
  [][\A g \in Clients, u \in UpdSet :
       (EnvUpdate(g, u) /\ ~Exists(GetStateBody)) =>
         /\ reply'[g] = Response("update", "notfound")
         /\ ~Exists(sessionData')
         /\ UNCHANGED <<storage, d1row, inbox, sessions, alarmAt, pending, nUpd>>]_vars

\* An update was answered NotFound after the session had expired, with a
\* connection registered.
C10_Witness ==
  /\ created
  /\ ~Exists(GetStateBody)
  /\ NoPending
  /\ sessions # <<>>
  /\ \E g \in Clients : reply[g] = Response("update", "notfound")

\* The k-th delay the policy prescribes.
ExpectedDelay(opts, k) ==
  LET d == opts.initialDelayMs * Pow(opts.backoffMultiplier, k - 1)
  IN IF d < opts.maxDelayMs THEN d ELSE opts.maxDelayMs

RetryEnded == retry.pc \in {"returned", "threw"}

\* C19: when every attempt fails with an error the predicate accepts,
\* retryWithBackoff invokes the action maxAttempts times, sleeps
\* maxAttempts - 1 times, the k-th sleep being min(initialDelay *
\* backoffFactor^(k-1), maxDelay), does not sleep after the final attempt and
\* throws the last attempt's error; on the first success it returns and
\* invokes the action no further.
C19_RetrySchedule ==
  /\ (retry.pc = "threw"
      /\ \A i \in 1..Len(retry.errors) : retryableErrors(retry.opts, retry.errors[i]))
       => /\ retry.calls = retry.opts.maxAttempts
          /\ Len(retry.sleeps) = retry.opts.maxAttempts - 1
          /\ retry.result = retry.errors[Len(retry.errors)]
  /\ \A k \in 1..Len(retry.sleeps) : retry.sleeps[k] = ExpectedDelay(retry.opts, k)
  /\ retry.pc = "sleeping" => retry.calls < retry.opts.maxAttempts
  /\ retry.pc = "returned" => retry.calls = Len(retry.errors) + 1
  /\ RetryEnded => ~ENABLED NextRetry

\* maxAttempts = 3, initialDelay = 100 ms, factor 2: three calls, sleeps of
\* 100 ms and 200 ms, then the third error is thrown.
C19_Witness ==
  /\ retry.pc = "threw"
  /\ retry.opts.maxAttempts = 3
  /\ retry.opts.initialDelayMs = 100
  /\ retry.opts.maxDelayMs = 10000
  /\ retry.opts.retryableErrors = "all"
  /\ retry.calls = 3
  /\ retry.sleeps = <<100, 200>>
  /\ retry.result = retry.errors[3]
  /\ retry.errors[3] # retry.errors[1]

\* C20: when an attempt fails with an error the predicate refuses, the call
\* throws that error at once: no sleep follows and the action is not invoked
\* again, however many attempts remain.
C20_NotRetryable ==
  (Len(retry.errors) >= 1
   /\ ~retryableErrors(retry.opts, retry.errors[Len(retry.errors)]))
    => /\ retry.pc = "threw"
       /\ retry.result = retry.errors[Len(retry.errors)]
       /\ retry.calls = Len(retry.errors)
       /\ Len(retry.sleeps) = Len(retry.errors) - 1
       /\ ~ENABLED NextRetry

\* The first of three attempts failed with HTTP 400 under isRetryableError.
C20_Witness ==
  /\ retry.pc = "threw"
  /\ retry.opts.maxAttempts = 3
  /\ retry.opts.retryableErrors = "isRetryableError"
  /\ retry.calls = 1
  /\ retry.sleeps = <<>>
  /\ retry.result.status = 400

\* The fields fixed at creation.
ImmutableFields == {"sessionId", "url", "email", "createdAt", "expiresAt"}

\* The body names another url or email than the session holds.
Conflicts(data, s) == data.url # s.url \/ data.email # s.email

\* C11: an init for an id whose session exists, with another url or email,
\* fails and leaves the session as it was: its fields, its status, its
\* expiresAt and the armed expiry timer.
C11_ConflictingInitRefused ==
  [][\A g \in Clients, w \in InitChoices :
       (EnvReinit(g, w) /\ Exists(GetStateBody) /\ Conflicts(InitBody(w), GetStateBody))
         => /\ GetStateBody' = GetStateBody
            /\ alarmAt' = alarmAt
            /\ reply'[g].code # "ok"]_vars

\* C12: once the session exists, no update and no repeated init changes its
\* id, url, email, createdAt or expiresAt, and expiresAt = createdAt + 24 h
\* whenever the session exists.
C12_ImmutableFields ==
  [][Exists(GetStateBody') =>
       /\ GetStateBody'.expiresAt = GetStateBody'.createdAt + ExpiryMs
       /\ Exists(GetStateBody) =>
            \A f \in ImmutableFields : GetStateBody'[f] = GetStateBody[f]]_vars

\* C13: in every session state the artifact key (r2Key) is set exactly when
\* the status is completed, and then names an object the upload has stored;
\* it is absent in queued, scanning, generating, uploading and failed.
C13_ArtifactKey ==
  Exists(GetStateBody) =>
    /\ ("r2Key" \in DOMAIN GetStateBody) <=> (GetStateBody.status = "completed")
    /\ ("r2Key" \in DOMAIN GetStateBody) =>
         (GetStateBody.r2Key # "" /\ GetStateBody.r2Key \in r2)

\* The workflow finished: completed, with the key of the stored object.
C13_Witness ==
  /\ Exists(GetStateBody)
  /\ GetStateBody.status = "completed"
  /\ GetStateBody.r2Key = r2KeyOf(SessionId)
  /\ r2 = {r2KeyOf(SessionId)}
  /\ wfPc = "done"

\* C14: in every session state an error summary (error) is present only if
\* the status is failed.
C14_ErrorOnlyWhenFailed ==
  (Exists(GetStateBody) /\ "error" \in DOMAIN GetStateBody)
    => GetStateBody.status = "failed"

\* The API layer could not start the workflow and recorded the failure.
C14_Witness ==
  /\ Exists(GetStateBody)
  /\ GetStateBody.status = "failed"
  /\ GetStateBody.error = "Failed to start scan workflow"
  /\ apiPc = "error"
  /\ wfPc = "idle"

\* progressPercent as getState shows it, -1 while no update has set it.
Progress(s) == IF "progressPercent" \in DOMAIN s THEN s.progressPercent ELSE -1

\* C15: while the status is non-terminal, progressPercent is within 0..100
\* and no update of the API layer or of the workflow lowers it.
C15_ProgressMonotone ==
  [][(/\ Exists(GetStateBody) /\ Exists(GetStateBody')
      /\ GetStateBody.status \in NonTerminal
      /\ GetStateBody'.status \in NonTerminal)
       => /\ Progress(GetStateBody') >= Progress(GetStateBody)
          /\ Progress(GetStateBody') <= 100]_vars

\* C16: when the workflow has run all its steps without an error and the
\* API layer's request has returned, getState shows completed, a non-empty
\* artifact key and progressPercent = 100.
C16_HappyPath ==
  (wfPc = "done" /\ apiPc = "done" /\ NoPending /\ Exists(GetStateBody))
    => /\ GetStateBody.status = "completed"
       /\ "r2Key" \in DOMAIN GetStateBody
       /\ GetStateBody.r2Key # ""
       /\ Progress(GetStateBody) = 100

\* The fixed message of the scanning-service class.
ScanningServiceMessage ==
  "Scanning Service Error: We encountered an issue while scanning your URL. "
    \o "Please try again in a few moments."

\* C17: when the scan submission keeps answering HTTP 500, the workflow
\* gives up after exactly 3 attempts and the session ends failed with the
\* fixed scanning-service message, whatever the 500 response's body says.
C17_Submit500 ==
  (wfErr.status = 500 /\ wfPc \in {"catch", "await", "errored"})
    => /\ wfAttempt = SubmitMaxAttempts
       /\ FailedUpdate(wfErr).error = ScanningServiceMessage
       /\ (wfPc = "errored" /\ Exists(GetStateBody))
            => /\ GetStateBody.status = "failed"
               /\ GetStateBody.error = ScanningServiceMessage

\* C18: a result service that keeps answering "not ready" is asked at most
\* 40 times; the loop then throws the timeout error, the workflow fails and
\* the session never becomes completed.
C18_PollCeiling ==
  [][/\ (\E st \in PollOutcomes : WfPollFetch(st)) => wfAttempt < PollMaxAttempts
     /\ (wfPc = "poll" /\ wfAttempt >= PollMaxAttempts /\ wfPc' # wfPc)
          => (wfAttempt = PollMaxAttempts /\ wfPc' = "catch"
              /\ wfErr' = ScanTimeoutError)
     /\ wfErr = ScanTimeoutError
          => /\ wfErr' = ScanTimeoutError
             /\ wfPc' \in {"catch", "await", "errored"}
             /\ Observed' # "completed"]_vars

\* Forty requests were answered "not ready"; the session ended failed with
\* the timeout message.
C18_Witness ==
  /\ wfErr = ScanTimeoutError
  /\ wfAttempt = PollMaxAttempts
  /\ wfPc = "errored"
  /\ Observed = "failed"
  /\ GetStateBody.error = "Request Timeout: The request took too long to complete. "
                            \o "Please try again."

\* The call was made without options and has failed at least once.
DefaultsFailed == retry.pc # "idle" /\ retry.options = Null /\ Len(retry.errors) >= 1

DefaultNumbers ==
  (retry.pc # "idle" /\ retry.options = Null) =>
    /\ retry.opts.maxAttempts = 3
    /\ retry.opts.initialDelayMs = 1000
    /\ retry.opts.backoffMultiplier = 2

\* C21 as stated: retryWithBackoff called without options uses 3 attempts,
\* 1 s initial delay, factor 2 and a predicate that accepts only network-class
\* errors and HTTP 5xx/429, so an action failing with another error (HTTP
\* 400) is attempted exactly once.
C21_DefaultsSelective ==
  /\ DefaultNumbers
  /\ (DefaultsFailed /\ ~isRetryableError(retry.errors[Len(retry.errors)]))
       => (retry.pc = "threw" /\ retry.calls = 1)

\* C21 amended: retryWithBackoff called without options uses 3 attempts, 1 s
\* initial delay, factor 2 and a predicate that accepts every error: an
\* action that keeps failing, also with HTTP 400, is attempted 3 times with
\* sleeps of 1 s and 2 s, and only the third failure is thrown.
C21_DefaultsRetryAll ==
  /\ DefaultNumbers
  /\ DefaultsFailed =>
       /\ retry.pc = "threw" <=> Len(retry.errors) = 3
       /\ retry.pc = "threw" => (retry.calls = 3 /\ retry.sleeps = <<1000, 2000>>)

\* Without options, three attempts failed with HTTP 400 and the third was
\* thrown.
C21_Witness ==
  /\ retry.options = Null
  /\ retry.pc = "threw"
  /\ retry.calls = 3
  /\ \A i \in 1..3 : retry.errors[i].status = 400
  /\ retry.sleeps = <<1000, 2000>>

\* HTTP 4xx other than 429; HTTP 5xx or 429.
Permanent(e) == e.status >= 400 /\ e.status < 500 /\ e.status # 429
Transient(e) == e.status >= 500 \/ e.status = 429

\* C22: a scan submission or a storage put that fails with an HTTP 4xx status
\* other than 429 is not retried, whatever its message says: the step throws
\* that error at once; a failure with a status >= 500 or 429 is retried
\* while attempts remain.
C22_PermanentNotRetried ==
  [][/\ \A o \in SubmitOutcomes :
          WfSubmit(o) =>
            /\ Permanent(o) => (wfPc' = "catch" /\ wfErr' = o /\ wfAttempt' = wfAttempt)
            /\ (Transient(o) /\ wfAttempt < SubmitMaxAttempts)
                 => (wfPc' = "submit" /\ wfAttempt' = wfAttempt + 1)
     /\ \A o \in PutOutcomes :
          WfUpload(o) =>
            /\ Permanent(o) => (wfPc' = "catch" /\ wfErr' = o /\ wfAttempt' = wfAttempt)
            /\ (Transient(o) /\ wfAttempt < UploadMaxAttempts)
                 => (wfPc' = "upload" /\ wfAttempt' = wfAttempt + 1)]_vars

\* "<title>: <message> <action>" of a classified error.
Rendered(f) == f.title \o ": " \o f.message \o " " \o f.action

\* The workflow posts an update that says failed.
PostsFailed ==
  /\ pending'["wf"] # pending["wf"]
  /\ pending'["wf"].kind = "update"
  /\ "status" \in DOMAIN pending'["wf"].upd
  /\ pending'["wf"].upd.status = "failed"

\* C23: an exception of a workflow step is caught once at the workflow
\* boundary: the catch issues exactly one update, status failed with the
\* error summary "<title>: <message> <action>" of the classified error, and
\* then the caught error itself is thrown again and ends the run.
C23_CaughtOnce ==
  [][/\ (wfPc = "catch" /\ wfPc' # "catch") =>
          /\ WfMarkFailed
          /\ wfErr # NoError
          /\ \/ reply'["wf"].code = "notfound"
             \/ pending'["wf"].upd =
                  [status |-> "failed", error |-> Rendered(getUserFriendlyError(wfErr))]
     /\ PostsFailed => wfPc = "catch"
     /\ (wfPc # "errored" /\ wfPc' = "errored") =>
          /\ wfNext = "errored"
          /\ wfThrown' = wfErr
     /\ wfPc = "errored" => (wfPc' = "errored" /\ wfThrown' = wfThrown)]_vars

\* A step that comes before the poll step runs.
RunsEarlierStep ==
  \/ WfFetch
  \/ WfProgress
  \/ \E o \in SubmitOutcomes : WfSubmit(o)
  \/ WfScanning

\* C24: when the workflow's process restarts during a poll-interval sleep,
\* run re-enters the poll step with the session state and the scan uuid it
\* had: fetch session data, the starting update, the submission and the
\* scanning update are not executed again, and run does not start over.
C24_RestartResumesPoll ==
  [][/\ WfRestart => (wfPc' = "poll" /\ wfScan' = wfScan /\ wfState' = wfState
                      /\ wfScan # "" /\ Exists(wfState))
     /\ wfRestarts >= 1 => ~RunsEarlierStep
     /\ wfRestarts' >= 1 => wfPc' \notin {"fetch", "progress", "submit", "uuid"}]_vars

\* After a restart during a poll-interval sleep the poll step ran again and
\* the workflow finished.
C24_Witness ==
  /\ wfRestarts = 1
  /\ wfPc = "done"
  /\ wfScan = "uuid-1"
  /\ Observed = "completed"

\* The update's fields as the record holds them (updatedAt is the
\* coordinator's own stamp).
Holds(s, u) ==
  /\ Exists(s)
  /\ \A f \in DOMAIN u \ {"updatedAt"} : f \in DOMAIN s /\ s[f] = u[f]

\* C25: when the write to the relational mirror fails during init or
\* update, the operation still succeeds: the caller receives ok, the durable
\* store holds the session, getState answers it, and (update) every open
\* registered connection is sent the update.
C25_MirrorFailureTolerated ==
  [][\A g \in Clients :
       /\ (InitResume(g, FALSE) /\ ~InitResume(g, TRUE)) =>
            /\ reply'[g] = Response("init", "ok")
            /\ Exists(storage')
            /\ GetStateBody' = storage'
       /\ (UpdateResume(g, FALSE) /\ ~UpdateResume(g, TRUE)) =>
            /\ reply'[g] = Response("update", "ok")
            /\ Exists(storage')
            /\ GetStateBody' = storage'
            /\ \A k \in Range(sessions) :
                 IsOpen(k) =>
                   inbox'[k] = Append(inbox[k],
                                      UpdateMessage(pending[g].upd, pending[g].uid))]_vars

\* C26: every update the coordinator applies is issued by the session's
\* workflow; the HTTP API layer that creates the session invokes no update.
C26_OnlyWorkflowUpdates ==
  [][/\ nUpd' > nUpd => (pending'["wf"].kind = "update" /\ pending'["wf"].uid = nUpd')
     /\ ~(ApiUpdate \/ ApiMarkFailed)]_vars

\* The expiry handler has run: the durable store is empty and the mirror row
\* says expired.
Expired ==
  /\ created
  /\ ~Exists(storage)
  /\ Exists(d1row)
  /\ d1row.status = "expired"

\* C27: once the expiry handler has run (the mirror being reachable), the
\* mirror row's status is expired and the durable store is empty, and both
\* stay so whatever update was in flight during the handler or comes later.
C27_ExpiredStays ==
  [][/\ AlarmResume(TRUE) => Expired'
     /\ Expired => Expired']_vars

\* C28: an update is broadcast only after the merged session was written to
\* the durable store and the mirror write was attempted: whenever a
\* connection is sent an update message, the durable store's session record
\* has the message's fields.
C28_StoredBeforeBroadcast ==
  [][\A c \in Callers :
       (UpdateResume(c, TRUE) /\ inbox' # inbox) =>
         /\ pending[c].uid <= nUpd
         /\ Exists(storage)
         /\ DOMAIN pending[c].upd \subseteq DOMAIN storage]_vars

\* The workflow issues an update that carries status st.
Issues(st) ==
  /\ pending'["wf"] # pending["wf"]
  /\ pending'["wf"].kind = "update"
  /\ "status" \in DOMAIN pending'["wf"].upd
  /\ pending'["wf"].upd.status = st

\* C29: in a run of the workflow, the update to scanning is issued only
\* after a successful submission and carries the uuid it returned; the
\* update to generating is issued before the renderer is called, the update
\* to uploading before the first put, and the update to completed only
\* after the put has succeeded.
C29_UpdateOrder ==
  [][/\ (WfScanning \/ Issues("scanning")) =>
          /\ "submit to radar api" \in wfDone
          /\ wfScan # ""
          /\ Issues("scanning") =>
               /\ "radarUuid" \in DOMAIN pending'["wf"].upd
               /\ pending'["wf"].upd.radarUuid = wfScan
     /\ (WfGenerating \/ Issues("generating")) => "generate pdf" \notin wfDone
     /\ (\E o \in PdfOutcomes : WfPdf(o)) => "update status to generating" \in wfDone
     /\ (WfUploading \/ Issues("uploading")) => (r2 = {} /\ "upload to r2" \notin wfDone)
     /\ (\E o \in PutOutcomes : WfUpload(o)) => "update status to uploading" \in wfDone
     /\ (WfCompleted \/ Issues("completed")) =>
          /\ "upload to r2" \in wfDone
          /\ r2KeyOf(SessionId) \in r2
          /\ Issues("completed") =>
               /\ "r2Key" \in DOMAIN pending'["wf"].upd
               /\ pending'["wf"].upd.r2Key \in r2]_vars

\* A run went through all its steps, every update in its place.
C29_Witness ==
  /\ wfPc = "done"
  /\ \A i \in 1..Len(StepEntry) : StepEntry[i].name \in wfDone
  /\ Exists(GetStateBody)
  /\ GetStateBody.status = "completed"
  /\ GetStateBody.radarUuid = wfScan
  /\ wfScan = "uuid-1"

RECURSIVE SeqSum(_)
SeqSum(q) == IF q = <<>> THEN 0 ELSE q[1] + SeqSum(Tail(q))

\* The sleep the policy prescribes after the not-ready answer to attempt k
\* (1-based), in seconds; 0: none.
PolicySleep(k) ==
  IF k <= 5 THEN 5 ELSE IF k <= 15 THEN 10 ELSE IF k <= 39 THEN 15 ELSE 0

\* Ten minutes in seconds, and what counts as about ten minutes (within a
\* tenth of it).
TenMinutes == 600
AboutTenMinutes(t) == 10 * t >= 9 * TenMinutes /\ 10 * t <= 11 * TenMinutes

\* C30: the sleep after a not-ready answer to attempt k is 5 s for k in
\* 1..5, 10 s for k in 6..15 and 15 s for k in 16..39, no sleep follows
\* attempt 40, and the sleeps of a poll that exhausts its 40 attempts add up
\* to the stated budget of about 10 minutes.
C30_PollSleeps ==
  [][/\ WfPollFetch(404) =>
          LET k == wfAttempt + 1 IN
          IF PolicySleep(k) = 0 THEN wfSleeps' = wfSleeps
          ELSE wfSleeps' = Append(wfSleeps, PolicySleep(k))
     /\ WfPollTimeout =>
          /\ Len(wfSleeps) = PollMaxAttempts - 1
          /\ AboutTenMinutes(SeqSum(wfSleeps))]_vars

\* The workflow issues the progress update of poll attempt wfAttempt + 1.
IssuesPollUpdate ==
  /\ wfPc = "poll"
  /\ wfNext' = "pollfetch"
  /\ pending'["wf"] # pending["wf"]
  /\ pending'["wf"].kind = "update"

\* What the progress message of attempt k (1-based) is to show.
AttemptOfTotal(k) ==
  "Analyzing URL... (" \o ToString(k) \o "/" \o ToString(PollMaxAttempts) \o ")"

\* C31: poll attempt k of 40 issues, before its result request, an update
\* whose progressPercent is 15 at the first attempt and 65 at the last,
\* never below 15 nor above 65, not below that of any earlier attempt, and
\* whose progressMessage shows k and the total of 40.
C31_PollProgress ==
  [][/\ IssuesPollUpdate =>
          LET k == wfAttempt + 1
              u == pending'["wf"].upd
          IN /\ k \in 1..PollMaxAttempts
             /\ DOMAIN u = {"progressPercent", "progressMessage"}
             /\ u.progressMessage = AttemptOfTotal(k)
             /\ u.progressPercent \in 15..65
             /\ \A j \in 1..k : pollProgress(j - 1) <= u.progressPercent
             /\ k = 1 => u.progressPercent = 15
             /\ k = PollMaxAttempts => u.progressPercent = 65
     /\ (\E st \in PollOutcomes : WfPollFetch(st)) => wfNext = "pollfetch"]_vars

\* The poll step threw on an answer that was neither 200 nor 404.
PollAborted ==
  \E st \in PollOutcomes \ {200, 404} :
    wfErr = RadarPollError(st, <<"upstream", "failure">>)

\* C32: during polling, an answer that is neither ready (200) nor not-ready
\* (404) aborts the workflow at once: no further result request and no sleep
\* follows, rendering and upload never run, and the session ends with
\* status = failed (a session that expiry has removed meanwhile shows no
\* status at all).
C32_PollAbort ==
  [][/\ (\E st \in PollOutcomes \ {200, 404} : WfPollFetch(st))
          => (wfPc' = "catch" /\ PollAborted' /\ wfSleeps' = wfSleeps)
     /\ PollAborted =>
          /\ PollAborted'
          /\ wfPc' \in {"catch", "await", "errored"}
          /\ wfSleeps' = wfSleeps
          /\ wfAttempt' = wfAttempt
          /\ r2' = r2
          /\ wfDone' \cap {"poll for scan results", "generate pdf", "upload to r2"} = {}
          /\ (wfPc' = "errored" /\ Exists(GetStateBody')) => Observed' = "failed"]_vars

\* A result request was answered 500 at the second attempt; the run ended in
\* its catch block and the session is failed.
C32_Witness ==
  /\ PollAborted
  /\ wfPc = "errored"
  /\ wfAttempt = 1
  /\ Len(wfSleeps) = 1
  /\ r2 = {}
  /\ Observed = "failed"

SocketCloses == ui.ws # "none" /\ ui'.ws = "none"

\* The component's session is active: neither completed nor failed.
UiActive == ui.status \notin {"null", "completed", "failed"}

\* C34: when the client's socket closes while its session is active, a
\* reconnection is scheduled, after 1 s, 2 s, 4 s, 8 s and 16 s for the
\* first to the fifth consecutive failure; after 5 failed attempts the client
\* polls the session every 5 s instead, and a poll that finds the session
\* completed or failed stops the polling.
C34_ClientReconnect ==
  [][/\ (SocketCloses /\ UiActive) =>
          IF ui.reconnectAttempts < 5
          THEN /\ ui'.reconnectTimeout = <<1000, 2000, 4000, 8000, 16000>>[ui.reconnectAttempts + 1]
               /\ ui'.reconnectAttempts = ui.reconnectAttempts + 1
               /\ ui'.pollingInterval = 0
          ELSE /\ ui'.pollingInterval = 5000
               /\ ui'.reconnectTimeout = 0
     /\ (ui.pollingInterval = 0 /\ ui'.pollingInterval # 0) =>
          (ui.reconnectAttempts = 5 /\ SocketCloses)
     /\ (UiPoll(TRUE) /\ ui.server \in {"completed", "failed"}) =>
          ui'.pollingInterval = 0]_vars

\* C35: the stored record equals the in-memory session whenever there is
\* one, after init and after every update, so that a cold start (the object
\* constructed anew, the record reloaded from the store) leaves getState's
\* answer exactly as it was.
C35_ColdStartSameState ==
  [][/\ Exists(sessionData) => sessionData = storage
     /\ Exists(sessionData') => sessionData' = storage'
     /\ Evict => /\ ~Exists(sessionData')
                 /\ GetStateBody' = GetStateBody
     /\ (\E g \in Clients : EnvGetState(g)) =>
          /\ GetStateBody' = GetStateBody
          /\ sessionData' = storage]_vars

\* A session that took two updates is cold: nothing in memory, and getState
\* answers the stored record with both merged.
C35_Witness ==
  /\ ~Exists(sessionData)
  /\ Exists(storage)
  /\ NoPending
  /\ Len(applied) = 2
  /\ nUpd = 2
  /\ GetStateBody = storage
  /\ \A i \in 1..2 : \A f \in DOMAIN applied[i].upd \ {"updatedAt"} :
       f \in DOMAIN GetStateBody

\* ws.onmessage folded over the messages a client received, in order:
\* `{...prev, ...message.data}` for a state and for an update message.
RECURSIVE mergeMessages(_, _)
mergeMessages(copy, q) ==
  IF q = <<>> THEN copy
  ELSE mergeMessages(IF Head(q).type \in {"state", "update"}
                     THEN Merge(copy, Head(q).data) ELSE copy, Tail(q))

\* Equal in every field except updatedAt.
SameButUpdatedAt(a, b) ==
  /\ DOMAIN a \ {"updatedAt"} = DOMAIN b \ {"updatedAt"}
  /\ \A f \in DOMAIN a \ {"updatedAt"} : a[f] = b[f]

\* Connection k, which got a snapshot when it registered, receives an update.
ReceivesUpdate(k) ==
  /\ inbox[k] # <<>>
  /\ inbox[k][1].type = "state"
  /\ Len(inbox'[k]) = Len(inbox[k]) + 1
  /\ inbox'[k][Len(inbox'[k])].type = "update"

\* C36: a client that keeps the snapshot it got on registration and merges
\* each update message's data over it in arrival order holds, after every
\* update it has received, a copy equal to getState's answer in every field
\* except updatedAt.
C36_ClientCopy ==
  [][\A k \in Conns :
       ReceivesUpdate(k) => SameButUpdatedAt(mergeMessages(Null, inbox'[k]), GetStateBody')]_vars

\* C37: when the expiry handler has completed, the registry of live
\* connections is empty and no connection of the session is open, also for
\* a connection that registered while the handler awaited the mirror write.
C37_ExpiryClosesAll ==
  [][AlarmResume(TRUE) =>
       /\ sessions' = <<>>
       /\ \A k \in Conns : conn'[k].state # "open"]_vars

\* Expiry has torn the session down: its handler has completed and neither
\* the store nor memory holds a record.
TornDown ==
  /\ created
  /\ pending["alarm"].kind = "none"
  /\ ~Exists(storage)
  /\ ~Exists(sessionData)

\* The workflow found no session in step 'fetch session data'.
FetchFailed == wfErr = Error(<<"failed", "to", "fetch", "session", "state">>, NoStatus)

\* C38: once expiry has torn a session down, the workflow's later updates
\* are answered NotFound and never recreate it: getState keeps answering
\* NotFound and the store stays empty; a workflow that finds the session
\* missing when it starts fails without creating any session state.
C38_NoResurrection ==
  [][/\ TornDown =>
          /\ TornDown'
          /\ ~Exists(GetStateBody')
          /\ (wfPc # "await" /\ wfPc' = "await") =>
               /\ reply'["wf"] = Response("update", "notfound")
               /\ UNCHANGED <<storage, sessionData, d1row, inbox, pending, nUpd>>
     /\ (WfFetch /\ ~Exists(GetStateBody)) => (wfPc' = "catch" /\ FetchFailed')
     /\ FetchFailed =>
          /\ TornDown /\ TornDown'
          /\ wfPc' \in {"catch", "await", "errored"}
          /\ r2' = {}
          /\ wfPc' = "errored" => wfThrown' = wfErr]_vars

\* The session expired while the workflow was polling; the run went on to
\* its end, its updates were answered NotFound and nothing was recreated.
C38_Witness ==
  /\ TornDown
  /\ wfPc = "done"
  /\ wfScan = "uuid-1"
  /\ reply["wf"] = Response("update", "notfound")
  /\ Exists(d1row)
  /\ d1row.status = "expired"
  /\ ~Exists(GetStateBody)

\* C39: whenever getState reports status = completed, the bucket holds an
\* object under sessions/<id>/report.pdf, the session's r2Key is that key,
\* and it is the key the download handler reads: completed is never shown
\* for a session whose report was not stored.
C39_CompletedHasArtifact ==
  (Exists(GetStateBody) /\ GetStateBody.status = "completed") =>
    /\ "r2Key" \in DOMAIN GetStateBody
    /\ GetStateBody.r2Key = "sessions/" \o GetStateBody.sessionId \o "/report.pdf"
    /\ GetStateBody.r2Key = downloadKey(GetStateBody.sessionId)
    /\ GetStateBody.r2Key \in r2
    /\ handleDownload(GetStateBody.sessionId) = 200

\* A completed session whose report the download handler finds.
C39_Witness ==
  /\ Exists(GetStateBody)
  /\ GetStateBody.status = "completed"
  /\ GetStateBody.sessionId = SessionId
  /\ handleDownload(SessionId) = 200
  /\ "upload to r2" \in wfDone

\* The run has ended: it returned, or it threw out of its catch block.
WfEnded == wfPc \in {"done", "errored"}

\* C40: a run of the workflow makes at most 3 scan submissions, at most 40
\* result requests and at most 3 puts, and ends; when it ends it has issued
\* exactly one terminal update, status completed or status failed, never
\* both and never neither.
C40_OneTerminalUpdate ==
  [][/\ (\E o \in SubmitOutcomes : WfSubmit(o)) => wfAttempt \in 1..3
     /\ (\E st \in PollOutcomes : WfPollFetch(st)) => wfAttempt + 1 \in 1..40
     /\ (\E o \in PutOutcomes : WfUpload(o)) => wfAttempt \in 1..3
     /\ (wfPc # "done" /\ wfPc' = "done") => wfNext = "done"
     /\ (wfPc # "errored" /\ wfPc' = "errored") => wfNext = "errored"
     /\ WfCompleted => wfNext \notin {"done", "errored"}
     /\ WfMarkFailed => wfNext \notin {"done", "errored"}
     /\ WfEnded => wfPc' = wfPc]_vars

====
